---- MODULE Spec2Model ----
(***************************************************************************)
(* Verification model of the Google Drive documentation crawler            *)
(* (webscrape-to-wikijs).  The discovery package (src/unnamed/part_002,    *)
(* second file of the part, lines 417-956) is modelled as a sequential     *)
(* state machine with an explicit call stack; the retry executor is        *)
(* modelled one remote call at a time.                                     *)
(***************************************************************************)
EXTENDS Integers, Sequences, FiniteSets, TLC

(***************************************************************************)
(* Bounds of the model                                                     *)
(***************************************************************************)
MaxSeeds == 2

MaxDepthBound == 2

\* the longest list of path fragments of the path calculations
MaxFrags == 2

\* the largest numeric suffix the reserved paths of a unique-path call hold
MaxSuffix == 2

\* the longest record list and the largest worker count given to Convert
MaxRecords == 3

MaxWorkers == 2

\* the longest title normalized
MaxTitleLen == 4

\* the longest text joined, in words and white space
MaxTokens == 5

\* the runs of Sync over one file
MaxPasses == 2

\* the revisions of one remote document
MaxVersion == 3

(***************************************************************************)
(* Program constants                                                       *)
(***************************************************************************)
maxRetries == 5

baseDelay == 1

(***************************************************************************)
(* Go errors.  A *googleapi.Error carries an HTTP code and a reason; an    *)
(* error built by fmt.Errorf("...: %w", err) is a different dynamic type   *)
(* that wraps it, so a plain type assertion on it fails.                   *)
(***************************************************************************)
NilErr == [kind |-> "nil", code |-> 0, reason |-> "", wrapped |-> FALSE]

ApiErr(code, reason) == [kind |-> "api", code |-> code, reason |-> reason, wrapped |-> FALSE]

NetErr == [kind |-> "net", code |-> 0, reason |-> "", wrapped |-> FALSE]

Wrap(err) == [err EXCEPT !.wrapped = TRUE]

\* err.(*googleapi.Error): succeeds only when err itself is the API error
IsApiError(err) == err.kind = "api" /\ ~err.wrapped

\* what one remote call answers
OkResp == [ok |-> TRUE, err |-> NilErr]

ErrResp(err) == [ok |-> FALSE, err |-> err]

RateLimitErrs == {ApiErr(429, "rateLimitExceeded"), ApiErr(403, "userRateLimitExceeded")}

PermanentErrs == {ApiErr(404, "notFound"), ApiErr(400, "badRequest"),
                  ApiErr(403, "insufficientFilePermissions"),
                  ApiErr(500, "backendError"), NetErr}

Responses == {OkResp} \cup {ErrResp(e) : e \in RateLimitErrs \cup PermanentErrs}

(***************************************************************************)
(* Retry executor: executeFileWithRetry                                    *)
(***************************************************************************)
\* the code's test for "rate limited": any API error with code 403 or 429
IsRateLimit(err) == IsApiError(err) /\ err.code \in {403, 429}

Backoff_linear(i) == baseDelay * (i + 1)

\* delay := baseDelay * time.Duration(1<<uint(i))
Backoff(i) == baseDelay * (2 ^ i)

RetryStart == [i |-> 0, calls |-> 0, sleeps |-> <<>>, done |-> FALSE, resp |-> OkResp]

\* one call of fn() inside executeFileWithRetry, the remote answering r:
\* loop iteration i < maxRetries, or the final attempt after the loop
RetryStep(st, r) ==
  IF st.i < maxRetries
  THEN IF r.ok
       THEN [st EXCEPT !.calls = @ + 1, !.done = TRUE, !.resp = r]
       ELSE IF IsRateLimit(r.err)
            THEN [st EXCEPT !.calls = @ + 1, !.i = @ + 1,
                            !.sleeps = Append(@, Backoff(st.i))]
            ELSE [st EXCEPT !.calls = @ + 1, !.done = TRUE, !.resp = r]
  ELSE [st EXCEPT !.calls = @ + 1, !.done = TRUE, !.resp = r]

RECURSIVE RetryRun(_, _)
\* the whole executor against a remote that answers r to every call (each
\* step is bound to a value before the next one is taken from it)
RetryRun(st, r) ==
  IF st.done THEN st
  ELSE CHOOSE out \in {RetryRun(nx, r) : nx \in {RetryStep(st, r)}} : TRUE

(***************************************************************************)
(* URLs.  A URL is kept parsed: its host, the parts of its path as         *)
(* strings.Split(u.Path, "/") yields them, and the value of its id query   *)
(* parameter ("" when absent).                                             *)
(***************************************************************************)
Url(host, path, qid) == [host |-> host, path |-> path, qid |-> qid]

\* hosts of the model for which strings.Contains(u.Host, s) is true
HostContains(host, s) ==
  \/ host = s
  \/ host = s \o ".evil.example"

\* first index i with parts[i] in {"d", "folders"} and i+1 < len(parts); 0 if none
PathHit(parts) ==
  LET hits == {i \in 1..Len(parts) :
                 /\ parts[i] \in {"d", "folders"}
                 /\ i + 1 <= Len(parts)}
  IN IF hits = {} THEN 0 ELSE CHOOSE i \in hits : \A j \in hits : i <= j

\* driveIDPattern [-\w]{25,} over the URL: the path parts and the query value
\* are its runs of word characters
LongRun(u) ==
  LET runs == u.path \o <<u.qid>>
      hits == {i \in 1..Len(runs) : Len(runs[i]) >= 25}
  IN IF hits = {} THEN "" ELSE runs[CHOOSE i \in hits : \A j \in hits : i <= j]

\* discovery's extractFileID: [ok, id]
extractFileID(u) ==
  IF ~HostContains(u.host, "drive.google.com") /\ ~HostContains(u.host, "docs.google.com")
  THEN [ok |-> FALSE, id |-> ""]
  ELSE IF PathHit(u.path) # 0
       THEN [ok |-> TRUE, id |-> u.path[PathHit(u.path) + 1]]
       ELSE IF u.qid # ""
            THEN [ok |-> TRUE, id |-> u.qid]
            ELSE IF LongRun(u) # ""
                 THEN [ok |-> TRUE, id |-> LongRun(u)]
                 ELSE [ok |-> FALSE, id |-> ""]

MimeDoc == "application/vnd.google-apps.document"

MimeFolder == "application/vnd.google-apps.folder"

MimePdf == "application/pdf"

MimePng == "image/png"

MimeSheet == "application/vnd.google-apps.spreadsheet"

\* discovery's buildFileLink
buildFileLink(fileID, mimeType) ==
  CASE mimeType = MimeDoc ->
         Url("docs.google.com", <<"", "document", "d", fileID, "edit">>, "")
    [] mimeType = "application/vnd.google-apps.spreadsheet" ->
         Url("docs.google.com", <<"", "spreadsheets", "d", fileID, "edit">>, "")
    [] mimeType = "application/vnd.google-apps.presentation" ->
         Url("docs.google.com", <<"", "presentation", "d", fileID, "edit">>, "")
    [] mimeType = "application/vnd.google-apps.form" ->
         Url("docs.google.com", <<"", "forms", "d", fileID, "edit">>, "")
    [] mimeType = "application/vnd.google-apps.drawing" ->
         Url("docs.google.com", <<"", "drawings", "d", fileID, "edit">>, "")
    [] mimeType = MimeFolder ->
         Url("drive.google.com", <<"", "drive", "folders", fileID>>, "")
    [] OTHER ->
         Url("drive.google.com", <<"", "file", "d", fileID, "view">>, "")

\* determineErrorStatus
determineErrorStatus(err) ==
  IF IsApiError(err)
  THEN CASE err.code = 404 -> "deleted"
         [] err.code = 403 -> "permission_denied"
         [] err.code = 400 -> "invalid"
         [] OTHER -> "error"
  ELSE "error"

(***************************************************************************)
(* Paths (src/internal/utils/path.go).  A name is the sequence of its      *)
(* characters; a path string is kept split at its separators: whether it   *)
(* starts with "/", and the elements between the separators.               *)
(***************************************************************************)
Dot == <<".">>

DotDot == <<".", ".">>

MdExt == <<".", "m", "d">>

Untitled == <<"u", "n", "t", "i", "t", "l", "e", "d">>

Unnamed == <<"u", "n", "n", "a", "m", "e", "d">>

\* [<>:"/\\|?*\x00-\x1f]
unsafeChars == {"<", ">", ":", "\"", "/", "\\", "|", "?", "*"}

\* \s
spaceChars == {" ", "\t", "\n"}

PathStr(abs, parts) == [abs |-> abs, parts |-> parts]

EmptyStr == PathStr(FALSE, <<>>)

RECURSIVE DropWhile(_, _)
DropWhile(s, set) ==
  IF s # <<>> /\ Head(s) \in set THEN DropWhile(Tail(s), set) ELSE s

RECURSIVE CollapseRuns(_, _, _)
\* regexp (set)+ replaced by rep
CollapseRuns(s, set, rep) ==
  IF s = <<>> THEN <<>>
  ELSE IF Head(s) \in set
       THEN <<rep>> \o CollapseRuns(DropWhile(Tail(s), set), set, rep)
       ELSE <<Head(s)>> \o CollapseRuns(Tail(s), set, rep)

Reverse(s) == [i \in 1..Len(s) |-> s[Len(s) + 1 - i]]

\* strings.Trim(s, cutset)
Trim(s, set) == Reverse(DropWhile(Reverse(DropWhile(s, set)), set))

\* the filesystem limit on the length of a filename
MaxNameLen == 255

SanitizeFilename(name) ==
  LET replaced == [i \in 1..Len(name) |->
                     IF name[i] \in unsafeChars THEN "_" ELSE name[i]]
      spaced == CollapseRuns(replaced, spaceChars, " ")
      dotted == CollapseRuns(spaced, {"."}, ".")
      trimmed == Trim(dotted, {" ", ".", "_"})
      named == IF trimmed = <<>> \/ Trim(trimmed, {"_"}) = <<>>
               THEN Untitled ELSE trimmed
  IN IF Len(named) > MaxNameLen THEN SubSeq(named, 1, MaxNameLen) ELSE named

RECURSIVE CleanParts(_, _, _)
\* filepath.Clean over the elements still to read, out being the elements kept
CleanParts(abs, parts, out) ==
  IF parts = <<>> THEN out
  ELSE LET c == Head(parts)
           kept == IF c = <<>> \/ c = Dot THEN out
                   ELSE IF c = DotDot
                        THEN IF out # <<>> /\ out[Len(out)] # DotDot
                             THEN SubSeq(out, 1, Len(out) - 1)
                             ELSE IF abs THEN out ELSE Append(out, DotDot)
                        ELSE Append(out, c)
       IN CleanParts(abs, Tail(parts), kept)

\* filepath.Clean: "." stands for the empty relative path
Clean(p) ==
  LET out == CleanParts(p.abs, p.parts, <<>>)
  IN IF out = <<>> /\ ~p.abs THEN PathStr(FALSE, <<Dot>>) ELSE PathStr(p.abs, out)

RECURSIVE ConcatParts(_)
ConcatParts(elems) ==
  IF elems = <<>> THEN <<>> ELSE Head(elems).parts \o ConcatParts(Tail(elems))

\* filepath.Join: empty elements are ignored, the rest joined and cleaned
Join(elems) ==
  LET used == SelectSeq(elems, LAMBDA e : e # EmptyStr)
  IN IF used = <<>> THEN EmptyStr
     ELSE Clean(PathStr(used[1].abs, ConcatParts(used)))

\* filepath.Dir
Dir(p) ==
  IF p.parts = <<>> THEN Clean(p)
  ELSE Clean(PathStr(p.abs, SubSeq(p.parts, 1, Len(p.parts) - 1)))

\* one path element as a string
Elem(name) == PathStr(FALSE, <<name>>)

\* the non-empty fragments, sanitized
FragParts(fragments) ==
  LET used == SelectSeq(fragments, LAMBDA f : f # <<>>)
  IN [i \in 1..Len(used) |-> SanitizeFilename(used[i])]

BuildOutputPath(baseDir, title, fragments) ==
  LET parts == Append(FragParts(fragments), SanitizeFilename(title) \o MdExt)
  IN Join(<<baseDir>> \o [i \in 1..Len(parts) |-> Elem(parts[i])])

RECURSIVE CommonLen(_, _, _, _)
\* the loop that counts the common prefix, from index i on
CommonLen(srcParts, tgtParts, minLen, i) ==
  IF i <= minLen /\ srcParts[i] = tgtParts[i]
  THEN 1 + CommonLen(srcParts, tgtParts, minLen, i + 1)
  ELSE 0

UpLevels_all(srcParts, commonLen) == Len(srcParts)

\* upLevels := len(srcParts) - commonLen
UpLevels(srcParts, commonLen) == Len(srcParts) - commonLen

CalculateRelativePath(sourceFragments, targetFragments, targetTitle) ==
  LET srcParts == FragParts(sourceFragments)
      tgtParts == Append(FragParts(targetFragments),
                         SanitizeFilename(targetTitle) \o MdExt)
      minLen == IF Len(tgtParts) - 1 < Len(srcParts)
                THEN Len(tgtParts) - 1 ELSE Len(srcParts)
      commonLen == CommonLen(srcParts, tgtParts, minLen, 1)
      upLevels == UpLevels(srcParts, commonLen)
      relParts == [i \in 1..upLevels |-> DotDot]
                    \o SubSeq(tgtParts, commonLen + 1, Len(tgtParts))
  IN Join([i \in 1..Len(relParts) |-> Elem(relParts[i])])

\* the last index of ch in name, 0 when absent
LastIndex(name, ch) ==
  IF \E i \in 1..Len(name) : name[i] = ch
  THEN CHOOSE i \in 1..Len(name) :
         name[i] = ch /\ \A j \in (i + 1)..Len(name) : name[j] # ch
  ELSE 0

\* filepath.Ext: the suffix of the last element from its last dot on
Ext(p) ==
  IF p.parts = <<>> THEN <<>>
  ELSE LET last == p.parts[Len(p.parts)]
           k == LastIndex(last, ".")
       IN IF k = 0 THEN <<>> ELSE SubSeq(last, k, Len(last))

\* fmt.Sprintf("%s_%d%s", base, i, ext)
Suffixed(p, i) ==
  IF p.parts = <<>> THEN PathStr(p.abs, <<<<"_", ToString(i)>>>>)
  ELSE LET last == p.parts[Len(p.parts)]
           ext == Ext(p)
           base == SubSeq(last, 1, Len(last) - Len(ext))
       IN [p EXCEPT !.parts[Len(p.parts)] = base \o <<"_", ToString(i)>> \o ext]

RECURSIVE ProbeFrom(_, _, _)
\* for i := 1; ; i++
ProbeFrom(p, existing, i) ==
  IF Suffixed(p, i) \notin existing THEN Suffixed(p, i)
  ELSE ProbeFrom(p, existing, i + 1)

EnsureUniquePath_same(path, existing) == path

EnsureUniquePath(path, existing) ==
  IF path \notin existing THEN path ELSE ProbeFrom(path, existing, 1)

lowerCase == [c \in {"A", "B", "T"} |-> CASE c = "A" -> "a" [] c = "B" -> "b" [] OTHER -> "t"]

\* [a-z0-9-] after lowering
keptChars == {"a", "b", "d", "e", "m", "n", "t", "u", "x", "y", "0", "1", "2", "-"}

RECURSIVE CollapseHyphens(_)
\* strings.ReplaceAll(filename, "--", "-") until no "--" is left
CollapseHyphens(s) ==
  IF \E i \in 1..(Len(s) - 1) : s[i] = "-" /\ s[i + 1] = "-"
  THEN CollapseHyphens(CollapseRuns(s, {"-"}, "-"))
  ELSE s

\* conversion.normalizeFilename
normalizeFilename(filename) ==
  LET lowered == [i \in 1..Len(filename) |->
                    IF filename[i] \in DOMAIN lowerCase THEN lowerCase[filename[i]]
                    ELSE filename[i]]
      hyphened == [i \in 1..Len(lowered) |-> IF lowered[i] = " " THEN "-" ELSE lowered[i]]
      kept == SelectSeq(hyphened, LAMBDA c : c \in keptChars)
      trimmed == Trim(CollapseHyphens(kept), {"-"})
  IN IF trimmed = <<>> THEN Unnamed ELSE trimmed

\* strings.ToLower, spaces to hyphens, the filter, the hyphen loop, the trim
\* and the default, shared by the two normalizers
NormalizeTail_noTrim(filename) ==
  LET lowered == [i \in 1..Len(filename) |->
                    IF filename[i] \in DOMAIN lowerCase THEN lowerCase[filename[i]]
                    ELSE filename[i]]
      hyphened == [i \in 1..Len(lowered) |-> IF lowered[i] = " " THEN "-" ELSE lowered[i]]
      kept == SelectSeq(hyphened, LAMBDA c : c \in keptChars)
      collapsed == CollapseHyphens(kept)
  IN IF collapsed = <<>> THEN Unnamed ELSE collapsed

NormalizeTail(filename) ==
  LET lowered == [i \in 1..Len(filename) |->
                    IF filename[i] \in DOMAIN lowerCase THEN lowerCase[filename[i]]
                    ELSE filename[i]]
      hyphened == [i \in 1..Len(lowered) |-> IF lowered[i] = " " THEN "-" ELSE lowered[i]]
      kept == SelectSeq(hyphened, LAMBDA c : c \in keptChars)
      trimmed == Trim(CollapseHyphens(kept), {"-"})
  IN IF trimmed = <<>> THEN Unnamed ELSE trimmed

\* filename[:idx] for idx the last index of ".", the whole name when it has none
StripExt(filename) ==
  IF LastIndex(filename, ".") # 0
  THEN SubSeq(filename, 1, LastIndex(filename, ".") - 1)
  ELSE filename

\* utils.NormalizeFilename
NormalizeFilename(filename) == NormalizeTail(StripExt(filename))

(***************************************************************************)
(* utils.ExtractFileID (src/internal/utils/url.go)                         *)
(***************************************************************************)
\* a string url.Parse rejects, such as "https://%zz/"
MalformedUrl == Url("%zz", <<>>, "")

ParseFails(u) == u.host = "%zz"

\* the branch of the loop body that returns at index i of parts, "" if the
\* loop goes on: the plain form tried before the nested one
SegmentID_plainFirst(parts, i) ==
  IF parts[i] \in {"d", "folders"} /\ i + 1 <= Len(parts)
  THEN [hit |-> TRUE, id |-> parts[i + 1]]
  ELSE IF parts[i] = "d" /\ i + 1 <= Len(parts) /\ parts[i + 1] = "e" /\ i + 2 <= Len(parts)
       THEN [hit |-> TRUE, id |-> parts[i + 2]]
       ELSE [hit |-> FALSE, id |-> ""]

\* the body of the loop over parts at index i
SegmentID(parts, i) ==
  IF parts[i] = "d" /\ i + 1 <= Len(parts) /\ parts[i + 1] = "e" /\ i + 2 <= Len(parts)
  THEN [hit |-> TRUE, id |-> parts[i + 2]]
  ELSE IF parts[i] \in {"d", "folders"} /\ i + 1 <= Len(parts)
       THEN [hit |-> TRUE, id |-> parts[i + 1]]
       ELSE [hit |-> FALSE, id |-> ""]

RECURSIVE ScanPath(_, _)
\* for i, part := range parts, from index i on
ScanPath(parts, i) ==
  IF i > Len(parts) THEN [hit |-> FALSE, id |-> ""]
  ELSE IF SegmentID(parts, i).hit THEN SegmentID(parts, i)
       ELSE ScanPath(parts, i + 1)

\* [ok, id]: err == nil and the ID returned
ExtractFileID(u) ==
  IF ParseFails(u) THEN [ok |-> FALSE, id |-> ""]
  ELSE IF ~HostContains(u.host, "drive.google.com") /\ ~HostContains(u.host, "docs.google.com")
       THEN [ok |-> FALSE, id |-> ""]
       ELSE IF ScanPath(u.path, 1).hit
            THEN [ok |-> TRUE, id |-> ScanPath(u.path, 1).id]
            ELSE IF u.qid # ""
                 THEN [ok |-> TRUE, id |-> u.qid]
                 ELSE IF LongRun(u) # ""
                      THEN [ok |-> TRUE, id |-> LongRun(u)]
                      ELSE [ok |-> FALSE, id |-> ""]

\* the folder link spelled "/drive/folder/<id>"
BuildFileLink_folderTypo(fileID, mimeType) ==
  CASE mimeType = "application/vnd.google-apps.form" ->
         Url("docs.google.com", <<"", "forms", "d", "e", fileID, "viewform">>, "")
    [] mimeType = MimeFolder ->
         Url("drive.google.com", <<"", "drive", "folder", fileID>>, "")
    [] OTHER -> buildFileLink(fileID, mimeType)

\* utils.BuildFileLink: the link of discovery's buildFileLink, but for a
\* form, which gets "/forms/d/e/<id>/viewform"
BuildFileLink(fileID, mimeType) ==
  CASE mimeType = "application/vnd.google-apps.form" ->
         Url("docs.google.com", <<"", "forms", "d", "e", fileID, "viewform">>, "")
    [] mimeType = MimeFolder ->
         Url("drive.google.com", <<"", "drive", "folders", fileID>>, "")
    [] OTHER -> buildFileLink(fileID, mimeType)

(***************************************************************************)
(* Joining URLs broken across lines.  A text is the sequence of its words  *)
(* and of the white space between them; a word is the sequence of the      *)
(* fragments it was joined from, "U" being a fragment that starts a store  *)
(* URL running to the end of the word and "f" any other run of characters. *)
(* The words of the model carry no markers and no escaped punctuation, so  *)
(* the second step of the two functions leaves them as they are.           *)
(***************************************************************************)
NL == <<"\n">>

SP == <<" ">>

UrlWord == <<"U">>

PlainWord == <<"f">>

IsUrlWord(w) == w[1] = "U"

RECURSIVE JoinPass(_)
\* urlContinuationPattern.ReplaceAllString(content, "$1$2"): every match,
\* left to right and without overlap, is a URL word, white space holding a
\* line break, and the word after it
JoinPass(text) ==
  IF text = <<>> THEN <<>>
  ELSE LET w == Head(text)
           after == DropWhile(Tail(text), {NL, SP})
           gap == SubSeq(Tail(text), 1, Len(Tail(text)) - Len(after))
       IN IF IsUrlWord(w) /\ after # <<>> /\ \E k \in 1..Len(gap) : gap[k] = NL
          THEN <<w \o Head(after)>> \o JoinPass(Tail(after))
          ELSE <<w>> \o JoinPass(Tail(text))

\* utils.NormalizeMultilineURLs
NormalizeMultilineURLs(content) == JoinPass(content)

RECURSIVE normalizeMultilineURLs(_)
\* conversion.normalizeMultilineURLs: the pass repeated until it changes nothing
normalizeMultilineURLs(content) ==
  IF JoinPass(content) = content THEN content
  ELSE normalizeMultilineURLs(JoinPass(content))

(***************************************************************************)
(* The remote store of the model: folders F (pages [A], [G]) and G (one    *)
(* page [A, B]), leaf documents A, B, C, and T, the temporary clone that   *)
(* Files.Copy creates.  A and C are Google Docs; B is the document whose   *)
(* type and failures vary (bkind).                                         *)
(***************************************************************************)
VARIABLES seeds, maxDepth, links, bkind,
          seen, depth, records, stack, urlIdx, calls, clones, pc, retErr,
          rst, rlog,
          pathIn, pathOut,
          convIn, linkMap, jobs, jobsClosed, results, wk, wg, existingPaths,
          disk, attempts, outPaths, mn, convRet,
          mdFile, remote, syncDryRun, syncResults, txn

vars == <<seeds, maxDepth, links, bkind, seen, depth, records, stack, urlIdx,
          calls, clones, pc, retErr, rst, rlog, pathIn, pathOut,
          convIn, linkMap, jobs, jobsClosed, results, wk, wg, existingPaths,
          disk, attempts, outPaths, mn, convRet,
          mdFile, remote, syncDryRun, syncResults, txn>>

syncVars == <<mdFile, remote, syncDryRun, syncResults, txn>>

pathVars == <<pathIn, pathOut>>

storeVars == <<seeds, maxDepth, links, bkind>>

retryVars == <<rst, rlog>>

FolderIDs == {"F", "G"}

LeafIDs == {"A", "B", "C"}

CloneID == "T"

IDs == FolderIDs \cup LeafIDs \cup {CloneID}

\* Files.List pages of a folder (PageSize(100) cuts the children into pages)
pages(folderID) ==
  CASE folderID = "F" -> << <<"A">>, <<"G">> >>
    [] folderID = "G" -> << <<"A", "B">> >>
    [] OTHER -> << <<>> >>

MetaFaults == {"meta404", "meta403", "meta400", "meta429", "meta500", "metaNet"}

BKinds == {"doc", "docExportFail", "pdf", "pdfCopyFail", "pdfExportFail",
           "pdfDeleteFail", "png"} \cup MetaFaults

\* file.MimeType
MimeType(id) ==
  IF id \in FolderIDs THEN MimeFolder
  ELSE IF id = "B" /\ bkind \in {"pdf", "pdfCopyFail", "pdfExportFail", "pdfDeleteFail"}
       THEN MimePdf
       ELSE IF id = "B" /\ bkind = "png" THEN MimePng ELSE MimeDoc

\* file.Name
NameOf(id) == "Title of " \o id

\* what Files.Get(id) answers, every time it is asked
MetaResponse(id) ==
  IF id = "B" /\ bkind \in MetaFaults
  THEN CASE bkind = "meta404" -> ErrResp(ApiErr(404, "notFound"))
         [] bkind = "meta403" -> ErrResp(ApiErr(403, "insufficientFilePermissions"))
         [] bkind = "meta400" -> ErrResp(ApiErr(400, "badRequest"))
         [] bkind = "meta429" -> ErrResp(ApiErr(429, "rateLimitExceeded"))
         [] bkind = "meta500" -> ErrResp(ApiErr(500, "backendError"))
         [] OTHER -> ErrResp(NetErr)
  ELSE OkResp

\* Files.Export(id, "text/markdown"), Files.Copy and Files.Delete succeed?
ExportOK(id) ==
  /\ ~(id = "B" /\ bkind = "docExportFail")
  /\ ~(id = CloneID /\ bkind = "pdfExportFail")

CopyOK(id) == ~(id = "B" /\ bkind = "pdfCopyFail")

DeleteOK(id) == ~(id = CloneID /\ bkind = "pdfDeleteFail")

\* the answer of a Files.Export, Files.Copy or Files.Delete that fails: the
\* remote's rate-limit signal
OpFault == ErrResp(ApiErr(429, "rateLimitExceeded"))

\* what the remote answers to operation op on entity id, every time it is asked
Answer(op, id) ==
  CASE op = "get" -> MetaResponse(id)
    [] op = "export" -> IF ExportOK(id) THEN OkResp ELSE OpFault
    [] op = "copy" -> IF CopyOK(id) THEN OkResp ELSE OpFault
    [] op = "delete" -> IF DeleteOK(id) THEN OkResp ELSE OpFault
    [] OTHER -> OkResp

\* the link a document's text holds to another entity of the store
LinkTo(id) == buildFileLink(id, MimeType(id))

\* a link of the allowed host from which no ID can be extracted
NoIDUrl == Url("docs.google.com", <<"", "document">>, "")

\* a seed on a foreign host
BadHostUrl == Url("other.com", <<"", "x">>, "")

SeedUrls == {BadHostUrl, LinkTo("A"), LinkTo("B"), LinkTo("F")}

\* the duplicate-free sequences over S
Arrangements(S) ==
  {s \in UNION {[1..n -> S] : n \in 0..Cardinality(S)} :
     \A i, j \in DOMAIN s : i # j => s[i] # s[j]}

\* the kinds of B whose text link extraction gets to read
ReadableKinds == {"doc", "pdf", "pdfDeleteFail"}

\* the link lists a document's text may hold; text that is never read is empty
LinkChoices(id) ==
  CASE id = "A" -> Arrangements({LinkTo("B"), LinkTo("C")})
    [] id = "B" -> IF bkind \in ReadableKinds
                   THEN {<<>>, <<LinkTo("A")>>, <<LinkTo("C")>>}
                   ELSE {<<>>}
    [] OTHER -> {<<>>, <<NoIDUrl, LinkTo("F")>>}

(***************************************************************************)
(* Discovery records and the call log                                      *)
(***************************************************************************)
Record(link, title, status) == [link |-> link, title |-> title, status |-> status]

InvalidRecord_noLink(urlStr) == Record(NoIDUrl, "INVALID_URL", "invalid")

\* the record DiscoverFromURLs emits for a seed with no extractable ID
InvalidRecord(urlStr) == Record(urlStr, "INVALID_URL", "invalid")

\* one remote operation: op on entity id, on behalf of the visit of document by,
\* n HTTP calls issued
Call(op, id, by, n) == [op |-> op, id |-> id, by |-> by, n |-> n]

Frame(id, url, d) ==
  [id |-> id, url |-> url, depth |-> d, pc |-> "check", links |-> <<>>,
   records |-> <<>>]

Top == stack[Len(stack)]

(***************************************************************************)
(* The visited set (d.seen, guarded by d.mu)                               *)
(***************************************************************************)
MarkSeen_skip(s, id) == s

\* d.seen[id] = true
MarkSeen(s, id) == s \cup {id}

(***************************************************************************)
(* discoverFolder, as the sequential function it is: from the visited set  *)
(* s, the records it returns, the visited set it leaves, the remote calls  *)
(* it issued and whether it returned an error.                             *)
(***************************************************************************)
\* what Files.List answers for a folder of the store
ListResponse(folderID) == OkResp

RECURSIVE discoverFolder(_, _)
RECURSIVE listPage(_, _, _, _, _)
RECURSIVE eachFile(_, _, _, _, _)

\* the loop over res.Files of one page
eachFile(s, files, k, recs, cs) ==
  IF k > Len(files)
  THEN [records |-> recs, seen |-> s, calls |-> cs]
  ELSE LET f == files[k]
       IN IF f \in s
          THEN eachFile(s, files, k + 1, recs, cs)
          ELSE IF MimeType(f) = MimeFolder
               THEN LET sub == discoverFolder(MarkSeen(s, f), f)
                    IN IF sub.failed
                       THEN eachFile(sub.seen, files, k + 1, recs, cs \o sub.calls)
                       ELSE eachFile(sub.seen, files, k + 1, recs \o sub.records,
                                     cs \o sub.calls)
               ELSE eachFile(MarkSeen(s, f), files, k + 1,
                             Append(recs, Record(buildFileLink(f, MimeType(f)),
                                                 NameOf(f), "available")),
                             cs)

\* one iteration of the pagination loop: page p of the folder
listPage(s, folderID, p, recs, cs) ==
  LET st == RetryRun(RetryStart, ListResponse(folderID))
      cs1 == Append(cs, Call("list", folderID, folderID, st.calls))
  IN IF ~st.resp.ok
     THEN [records |-> <<>>, seen |-> s, calls |-> cs1, failed |-> TRUE]
     ELSE LET r == eachFile(s, pages(folderID)[p], 1, recs, cs1)
          IN IF p < Len(pages(folderID))
             THEN listPage(r.seen, folderID, p + 1, r.records, r.calls)
             ELSE [records |-> r.records, seen |-> r.seen, calls |-> r.calls,
                   failed |-> FALSE]

discoverFolder(s, folderID) ==
  IF folderID \in s
  THEN [records |-> <<>>, seen |-> s, calls |-> <<>>, failed |-> FALSE]
  ELSE listPage(MarkSeen(s, folderID), folderID, 1, <<>>, <<>>)

(***************************************************************************)
(* Link extraction                                                         *)
(***************************************************************************)
\* the matches of linkPattern in the normalized text of a document
Content(id) == IF id \in LeafIDs THEN links[id] ELSE <<>>

\* the clone is deleted after a successful export only
extractLinksFromPDF_noDefer(fileID) ==
  IF ~CopyOK(fileID)
  THEN [ok |-> FALSE, content |-> <<>>,
        calls |-> <<Call("copy", fileID, fileID, 1)>>, clones |-> clones]
  ELSE IF ~ExportOK(CloneID)
       THEN [ok |-> FALSE, content |-> <<>>,
             calls |-> <<Call("copy", fileID, fileID, 1),
                         Call("export", CloneID, fileID, 1)>>,
             clones |-> clones \cup {CloneID}]
       ELSE [ok |-> TRUE, content |-> Content(fileID),
             calls |-> <<Call("copy", fileID, fileID, 1),
                         Call("export", CloneID, fileID, 1),
                         Call("delete", CloneID, fileID, 1)>>,
             clones |-> IF DeleteOK(CloneID) THEN clones \ {CloneID}
                        ELSE clones \cup {CloneID}]

\* extractLinksFromPDF: create a clone, export it, delete the clone
extractLinksFromPDF(fileID) ==
  IF ~CopyOK(fileID)
  THEN [ok |-> FALSE, content |-> <<>>,
        calls |-> <<Call("copy", fileID, fileID, 1)>>, clones |-> clones]
  ELSE [ok |-> ExportOK(CloneID),
        content |-> IF ExportOK(CloneID) THEN Content(fileID) ELSE <<>>,
        calls |-> <<Call("copy", fileID, fileID, 1),
                    Call("export", CloneID, fileID, 1),
                    Call("delete", CloneID, fileID, 1)>>,
        clones |-> IF DeleteOK(CloneID) THEN clones \ {CloneID}
                   ELSE clones \cup {CloneID}]

\* the URLs kept by the loop over the matches
NewLinks(fileID, matches) ==
  SelectSeq(matches, LAMBDA u : /\ extractFileID(u).ok
                                /\ extractFileID(u).id \notin seen
                                /\ extractFileID(u).id # fileID)

\* strings.HasPrefix(mimeType, "application/vnd.google-apps.")
IsGoogleApps(mimeType) ==
  mimeType \in {MimeDoc, MimeFolder,
                "application/vnd.google-apps.spreadsheet",
                "application/vnd.google-apps.presentation",
                "application/vnd.google-apps.form",
                "application/vnd.google-apps.drawing"}

\* extractLinksFromDocument: the linked URLs, the calls issued, the clones left
extractLinksFromDocument(fileID, mimeType) ==
  IF mimeType = MimePdf
  THEN LET r == extractLinksFromPDF(fileID)
       IN [urls |-> IF r.ok THEN NewLinks(fileID, r.content) ELSE <<>>,
           calls |-> r.calls, clones |-> r.clones]
  ELSE IF IsGoogleApps(mimeType)
       THEN IF mimeType = MimeFolder
            THEN [urls |-> <<>>, calls |-> <<>>, clones |-> clones]
            ELSE IF ~ExportOK(fileID)
                 THEN [urls |-> <<>>, calls |-> <<Call("export", fileID, fileID, 1)>>,
                       clones |-> clones]
                 ELSE [urls |-> NewLinks(fileID, Content(fileID)),
                       calls |-> <<Call("export", fileID, fileID, 1)>>,
                       clones |-> clones]
       ELSE [urls |-> <<>>, calls |-> <<>>, clones |-> clones]

(***************************************************************************)
(* Discovery: DiscoverFromURLs and discoverFromFileIDWithURL               *)
(***************************************************************************)
DiscoverInit ==
  /\ bkind \in BKinds
  /\ seeds \in UNION {[1..n -> SeedUrls] : n \in 1..MaxSeeds}
  /\ maxDepth \in 0..MaxDepthBound
  /\ \E la \in LinkChoices("A"), lb \in LinkChoices("B"), lc \in LinkChoices("C") :
       links = [id \in LeafIDs |-> CASE id = "A" -> la [] id = "B" -> lb [] OTHER -> lc]
  /\ seen = {}
  /\ depth = [id \in IDs |-> -1]
  /\ records = <<>>
  /\ stack = <<>>
  /\ urlIdx = 1
  /\ calls = <<>>
  /\ clones = {}
  /\ pc = "run"
  /\ retErr = "none"

RetryIdle == rst = RetryStart /\ rlog = <<>>

\* no path calculation under way
PathIdle == pathIn = [fn |-> "none"] /\ pathOut = [fn |-> "none"]

convVars == <<convIn, linkMap, jobs, jobsClosed, results, wk, wg, existingPaths,
              disk, attempts, outPaths, mn, convRet>>

Workers == 1..MaxWorkers

NumRecords == Len(convIn.records)

\* the Converter as NewConverter builds it, Convert not yet called
ConvIdle ==
  /\ convIn = [records |-> <<>>, workers |-> 0]
  /\ linkMap = <<>>
  /\ jobs = <<>>
  /\ jobsClosed = FALSE
  /\ results = <<>>
  /\ wk = [w \in Workers |-> [pc |-> "off", job |-> 0, links |-> <<>>,
                              path |-> EmptyStr, err |-> "nil", calls |-> <<>>]]
  /\ wg = 0
  /\ existingPaths = {}
  /\ disk = <<>>
  /\ attempts = <<>>
  /\ outPaths = <<>>
  /\ mn = [pc |-> "idle", i |-> 0]
  /\ convRet = "none"

\* Sync has not been asked for anything
SyncIdle ==
  /\ mdFile = [state |-> "none"]
  /\ remote = [marker |-> <<>>]
  /\ syncDryRun = FALSE
  /\ syncResults = <<>>
  /\ txn = [pc |-> "none"]

Init == DiscoverInit /\ RetryIdle /\ PathIdle /\ ConvIdle /\ SyncIdle

\* return recs to the caller: the link loop of the frame below, or the seed loop
PopWith(recs) ==
  IF Len(stack) = 1
  THEN /\ stack' = <<>>
       /\ records' = records \o recs
       /\ urlIdx' = urlIdx + 1
  ELSE /\ stack' = [SubSeq(stack, 1, Len(stack) - 1)
                      EXCEPT ![Len(stack) - 1].records = @ \o recs]
       /\ UNCHANGED <<records, urlIdx>>

\* currentDepth < d.maxDepth
ShouldExtract_le(currentDepth) == currentDepth <= maxDepth

ShouldExtract(currentDepth) == currentDepth < maxDepth

\* the remaining iterations of a range loop after the current one
Rest_stuck(s) == s

Rest(s) == Tail(s)

\* d.getFileMetadata(fileID): the executor's run and the error it returns
getFileMetadata(fileID) ==
  LET st == RetryRun(RetryStart, MetaResponse(fileID))
  IN [ok |-> st.resp.ok,
      err |-> IF st.resp.ok THEN NilErr ELSE Wrap(st.resp.err),
      call |-> Call("get", fileID, fileID, st.calls)]

\* the seed loop meets a URL with no extractable ID
SeedInvalid ==
  /\ pc = "run" /\ stack = <<>> /\ urlIdx <= Len(seeds)
  /\ ~extractFileID(seeds[urlIdx]).ok
  /\ records' = Append(records, InvalidRecord(seeds[urlIdx]))
  /\ urlIdx' = urlIdx + 1
  /\ UNCHANGED <<storeVars, seen, depth, stack, calls, clones, pc, retErr, retryVars, pathVars, convVars, syncVars>>

\* the seed loop calls discoverFromFileIDWithURL(fileID, urlStr, 0)
SeedVisit ==
  /\ pc = "run" /\ stack = <<>> /\ urlIdx <= Len(seeds)
  /\ extractFileID(seeds[urlIdx]).ok
  /\ stack' = <<Frame(extractFileID(seeds[urlIdx]).id, seeds[urlIdx], 0)>>
  /\ UNCHANGED <<storeVars, seen, depth, records, urlIdx, calls, clones, pc, retErr,
                 retryVars, pathVars, convVars, syncVars>>

\* return records, nil
Finish ==
  /\ pc = "run" /\ stack = <<>> /\ urlIdx > Len(seeds)
  /\ pc' = "done"
  /\ retErr' = "nil"
  /\ UNCHANGED <<storeVars, seen, depth, records, stack, urlIdx, calls, clones,
                 retryVars, pathVars, convVars, syncVars>>

\* the visited check finds the ID: return no records
VisitSeen ==
  /\ pc = "run" /\ stack # <<>> /\ Top.pc = "check"
  /\ Top.id \in seen
  /\ PopWith(<<>>)
  /\ UNCHANGED <<storeVars, seen, depth, calls, clones, pc, retErr, retryVars, pathVars, convVars, syncVars>>

\* the visited check misses: mark the ID and record its depth, under d.mu
VisitMark ==
  /\ pc = "run" /\ stack # <<>> /\ Top.pc = "check"
  /\ Top.id \notin seen
  /\ seen' = MarkSeen(seen, Top.id)
  /\ depth' = [depth EXCEPT ![Top.id] = Top.depth]
  /\ stack' = [stack EXCEPT ![Len(stack)].pc = "meta"]
  /\ UNCHANGED <<storeVars, records, urlIdx, calls, clones, pc, retErr, retryVars, pathVars, convVars, syncVars>>

\* the metadata fetch fails: one record with the status of the error
MetadataFailed ==
  /\ pc = "run" /\ stack # <<>> /\ Top.pc = "meta"
  /\ ~getFileMetadata(Top.id).ok
  /\ calls' = Append(calls, getFileMetadata(Top.id).call)
  /\ PopWith(<<Record(Top.url, Top.id,
                      determineErrorStatus(getFileMetadata(Top.id).err))>>)
  /\ UNCHANGED <<storeVars, seen, depth, clones, pc, retErr, retryVars, pathVars, convVars, syncVars>>

\* the entity is a folder: discoverFolder(fileID), whose records are returned
FolderVisit ==
  /\ pc = "run" /\ stack # <<>> /\ Top.pc = "meta"
  /\ getFileMetadata(Top.id).ok
  /\ MimeType(Top.id) = MimeFolder
  /\ LET r == discoverFolder(seen, Top.id)
     IN /\ seen' = r.seen
        /\ calls' = Append(calls, getFileMetadata(Top.id).call) \o r.calls
        /\ PopWith(Top.records \o r.records)
  /\ UNCHANGED <<storeVars, depth, clones, pc, retErr, retryVars, pathVars, convVars, syncVars>>

\* the entity is a leaf: emit it as available; below maxDepth go on to its links
LeafVisit ==
  /\ pc = "run" /\ stack # <<>> /\ Top.pc = "meta"
  /\ getFileMetadata(Top.id).ok
  /\ MimeType(Top.id) # MimeFolder
  /\ calls' = Append(calls, getFileMetadata(Top.id).call)
  /\ LET rec == Record(Top.url, NameOf(Top.id), "available")
     IN IF ShouldExtract(Top.depth)
        THEN /\ stack' = [stack EXCEPT ![Len(stack)].pc = "extract",
                                       ![Len(stack)].records = Append(@, rec)]
             /\ UNCHANGED <<records, urlIdx>>
        ELSE PopWith(Append(Top.records, rec))
  /\ UNCHANGED <<storeVars, seen, depth, clones, pc, retErr, retryVars, pathVars, convVars, syncVars>>

\* linkedURLs := d.extractLinksFromDocument(fileID, file.MimeType)
ExtractLinks ==
  /\ pc = "run" /\ stack # <<>> /\ Top.pc = "extract"
  /\ LET r == extractLinksFromDocument(Top.id, MimeType(Top.id))
     IN /\ stack' = [stack EXCEPT ![Len(stack)].pc = "links",
                                  ![Len(stack)].links = r.urls]
        /\ calls' = calls \o r.calls
        /\ clones' = r.clones
  /\ UNCHANGED <<storeVars, seen, depth, records, urlIdx, pc, retErr, retryVars, pathVars, convVars, syncVars>>

\* one iteration of the loop over linkedURLs: visit the link one level deeper
FollowLink ==
  /\ pc = "run" /\ stack # <<>> /\ Top.pc = "links" /\ Top.links # <<>>
  /\ LET u == Head(Top.links)
         rest == [stack EXCEPT ![Len(stack)].links = Rest(@)]
     IN IF extractFileID(u).ok
        THEN stack' = Append(rest, Frame(extractFileID(u).id, u, Top.depth + 1))
        ELSE stack' = rest
  /\ UNCHANGED <<storeVars, seen, depth, records, urlIdx, calls, clones, pc, retErr,
                 retryVars, pathVars, convVars, syncVars>>

\* the loop over linkedURLs is over: return records, nil
LinksDone ==
  /\ pc = "run" /\ stack # <<>> /\ Top.pc = "links" /\ Top.links = <<>>
  /\ PopWith(Top.records)
  /\ UNCHANGED <<storeVars, seen, depth, calls, clones, pc, retErr, retryVars, pathVars, convVars, syncVars>>

Next ==
  \/ SeedInvalid
  \/ SeedVisit
  \/ Finish
  \/ VisitSeen
  \/ VisitMark
  \/ MetadataFailed
  \/ FolderVisit
  \/ LeafVisit
  \/ ExtractLinks
  \/ FollowLink
  \/ LinksDone

Spec == Init /\ [][Next]_vars

(***************************************************************************)
(* The retry executor on its own, the remote answering each call freely    *)
(***************************************************************************)
RetryInit ==
  /\ seeds = <<>>
  /\ maxDepth = 0
  /\ links = [id \in LeafIDs |-> <<>>]
  /\ bkind = "doc"
  /\ seen = {}
  /\ depth = [id \in IDs |-> -1]
  /\ records = <<>>
  /\ stack = <<>>
  /\ urlIdx = 1
  /\ calls = <<>>
  /\ clones = {}
  /\ pc = "done"
  /\ retErr = "none"
  /\ RetryIdle
  /\ PathIdle
  /\ ConvIdle
  /\ SyncIdle

\* fn() is called once more and answers r
RetryCall ==
  /\ ~rst.done
  /\ \E r \in Responses :
       /\ rst' = RetryStep(rst, r)
       /\ rlog' = Append(rlog, r)
  /\ UNCHANGED <<storeVars, seen, depth, records, stack, urlIdx, calls, clones, pc,
                 retErr, pathVars, convVars, syncVars>>

RetryNext == RetryCall

SpecRetry == RetryInit /\ [][RetryNext]_vars

(***************************************************************************)
(* The path calculations on their own, applied to inputs of bounded size   *)
(***************************************************************************)
\* discovery has not been asked for anything
DiscoverIdle ==
  /\ seeds = <<>>
  /\ maxDepth = 0
  /\ links = [id \in LeafIDs |-> <<>>]
  /\ bkind = "doc"
  /\ seen = {}
  /\ depth = [id \in IDs |-> -1]
  /\ records = <<>>
  /\ stack = <<>>
  /\ urlIdx = 1
  /\ calls = <<>>
  /\ clones = {}
  /\ pc = "done"
  /\ retErr = "none"

\* fragment values: empty, plain, two dots, a name with a separator
FragPool == {<<>>, <<"a">>, <<"b">>, <<".", ".">>, <<"a", "/">>}

FragLists == UNION {[1..n -> FragPool] : n \in 0..MaxFrags}

TitlePool == {<<"t">>, <<"a">>, <<>>}

\* base directories: "", "out", "../out/." and "/srv"
BasePool ==
  {EmptyStr, PathStr(FALSE, <<<<"o", "u", "t">>>>),
   PathStr(FALSE, <<DotDot, <<"o", "u", "t">>, Dot>>),
   PathStr(TRUE, <<<<"s", "r", "v">>>>)}

\* "f.md", "f", "d.x/f", ".md", "a.b.md" and "f_1.md"
PathPool ==
  {PathStr(FALSE, <<<<"f", ".", "m", "d">>>>),
   PathStr(FALSE, <<<<"f">>>>),
   PathStr(FALSE, <<<<"d", ".", "x">>, <<"f">>>>),
   PathStr(FALSE, <<<<".", "m", "d">>>>),
   PathStr(FALSE, <<<<"a", ".", "b", ".", "m", "d">>>>),
   PathStr(FALSE, <<<<"f", "_", "1", ".", "m", "d">>>>)}

\* the paths a reservation set may hold when path is asked for
Reservable(path) ==
  {path, PathStr(FALSE, <<<<"f", "_", "1", ".", "m", "d">>>>)}
    \cup {Suffixed(path, i) : i \in 1..MaxSuffix}

PathInit ==
  /\ DiscoverIdle
  /\ RetryIdle
  /\ ConvIdle
  /\ SyncIdle
  /\ pathOut = [fn |-> "none"]
  /\ \/ \E base \in BasePool, src \in FragLists, tgt \in FragLists, title \in TitlePool :
          pathIn = [fn |-> "relative", base |-> base, src |-> src, tgt |-> tgt,
                    title |-> title]
     \/ \E path \in PathPool :
          \E reserved \in SUBSET Reservable(path) :
            pathIn = [fn |-> "unique", path |-> path, existingPaths |-> reserved]

\* the source's path, the relative link to the target, and the target's path
ApplyRelativePath ==
  /\ pathIn.fn = "relative" /\ pathOut.fn = "none"
  /\ \E anyTitle \in TitlePool :
       pathOut' = [fn |-> "relative",
                   srcPath |-> BuildOutputPath(pathIn.base, anyTitle, pathIn.src),
                   rel |-> CalculateRelativePath(pathIn.src, pathIn.tgt, pathIn.title),
                   tgtPath |-> BuildOutputPath(pathIn.base, pathIn.title, pathIn.tgt)]
  /\ UNCHANGED <<storeVars, seen, depth, records, stack, urlIdx, calls, clones, pc,
                 retErr, retryVars, pathIn, convVars, syncVars>>

\* utils.EnsureUniquePath(path, existingPaths); the map is only read
ApplyEnsureUnique ==
  /\ pathIn.fn = "unique" /\ pathOut.fn = "none"
  /\ pathOut' = [fn |-> "unique",
                 result |-> EnsureUniquePath(pathIn.path, pathIn.existingPaths)]
  /\ UNCHANGED <<storeVars, seen, depth, records, stack, urlIdx, calls, clones, pc,
                 retErr, retryVars, pathIn, convVars, syncVars>>

PathNext == ApplyRelativePath \/ ApplyEnsureUnique

SpecPath == PathInit /\ [][PathNext]_vars

(***************************************************************************)
(* Conversion (src/internal/conversion/conversion.go, second file of the   *)
(* part, lines 524-1140).  Convert runs a pool of workers over a channel   *)
(* of jobs; the main goroutine and every worker take one step at a time.   *)
(* The worker pool of Sync (src/unnamed/part_003, lines 84-110) has the    *)
(* same shape.                                                             *)
(***************************************************************************)
\* conversion's extractFileID: the text between the first "/d/" and the next
\* "/", else the first run of 25 or more word characters
convExtractFileID(u) ==
  LET hits == {i \in 2..(Len(u.path) - 1) : u.path[i] = "d"}
  IN IF hits # {}
     THEN LET i == CHOOSE k \in hits : \A j \in hits : k <= j
          IN [ok |-> TRUE,
              id |-> IF i + 1 = Len(u.path) /\ u.qid # ""
                     THEN u.path[i + 1] \o "?id=" \o u.qid
                     ELSE u.path[i + 1]]
     ELSE IF LongRun(u) # "" THEN [ok |-> TRUE, id |-> LongRun(u)]
          ELSE [ok |-> FALSE, id |-> ""]

\* c.outputDir
outputDir == PathStr(FALSE, <<<<"o", "u", "t">>>>)

\* c.dryRun: the run writes its files
dryRun == FALSE

FragsX == <<<<"x">>, <<>>, <<>>, <<>>, <<>>>>

FragsNone == <<<<>>, <<>>, <<>>, <<>>, <<>>>>

\* the same document in the drive.google.com/file/d/<id>/view form
FileLink(id) == Url("drive.google.com", <<"", "file", "d", id, "view">>, "")

DocLink(id) == buildFileLink(id, MimeDoc)

\* row i of the conversion CSV: A "Ta" and B in folder x, C at the top; the
\* documents link to each other, C also to a document outside the inventory;
\* further rows repeat the row of C
ConvRecord(i, titleB, mimes) ==
  CASE i = 1 -> [id |-> "A", Link |-> DocLink("A"), Title |-> <<"T", "a">>,
                 frags |-> FragsX, mime |-> mimes[1],
                 content |-> <<FileLink("B")>>]
    [] i = 2 -> [id |-> "B", Link |-> DocLink("B"), Title |-> titleB,
                 frags |-> FragsX, mime |-> mimes[2],
                 content |-> <<DocLink("A")>>]
    [] OTHER -> [id |-> "C", Link |-> DocLink("C"), Title |-> <<"t", "a", "!">>,
                 frags |-> FragsNone, mime |-> mimes[i],
                 content |-> <<DocLink("B"), DocLink("Z"), NoIDUrl>>]

ConvMimes == {MimeDoc, MimePng, MimeSheet}

\* Files.Export(fileID, "text/markdown") answers: the store exports a
\* document as markdown and refuses a spreadsheet
convExportOK(rec) == rec.mime = MimeDoc

\* the remote calls convertRecord issues for a record: none without a file
\* ID; the metadata fetch; for a Google Workspace type the metadata fetch of
\* exportAsMarkdown and its export
convertCalls(rec) ==
  IF ~convExtractFileID(rec.Link).ok THEN <<>>
  ELSE IF IsGoogleApps(rec.mime) THEN <<"get", "get", "export">>
       ELSE <<"get">>

\* a bare file ID as a key of c.linkMap, whose other keys are URLs
IdKey(id) == Url("", <<id>>, "")

\* m with key k set to v
MapPut(m, k, v) == [x \in DOMAIN m \cup {k} |-> IF x = k THEN v ELSE m[x]]

RECURSIVE buildLinkMap(_, _, _)
\* the loop that indexes the records by URL and by file ID, from row i on
buildLinkMap(recs, i, m) ==
  IF i > Len(recs) THEN m
  ELSE LET byLink == MapPut(m, recs[i].Link, i)
           fid == convExtractFileID(recs[i].Link)
       IN buildLinkMap(recs, i + 1,
                       IF fid.ok THEN MapPut(byLink, IdKey(fid.id), i) ELSE byLink)

\* the lookup by file ID tried before the lookup by URL
rewriteLink_idFirst(linkURL, source) ==
  LET keep == [rewritten |-> FALSE, url |-> linkURL, target |-> 0, rel |-> EmptyStr]
      to(t) == [rewritten |-> TRUE, url |-> linkURL, target |-> t,
                rel |-> CalculateRelativePath(
                          convIn.records[source].frags,
                          convIn.records[t].frags,
                          normalizeFilename(convIn.records[t].Title))]
      fid == convExtractFileID(linkURL)
  IN IF fid.ok /\ IdKey(fid.id) \in DOMAIN linkMap THEN to(linkMap[IdKey(fid.id)])
     ELSE IF linkURL \in DOMAIN linkMap THEN to(linkMap[linkURL])
          ELSE keep

\* the replacement rewriteLinks makes for one matched link of the source
rewriteLink(linkURL, source) ==
  LET keep == [rewritten |-> FALSE, url |-> linkURL, target |-> 0, rel |-> EmptyStr]
      to(t) == [rewritten |-> TRUE, url |-> linkURL, target |-> t,
                rel |-> CalculateRelativePath(
                          convIn.records[source].frags,
                          convIn.records[t].frags,
                          normalizeFilename(convIn.records[t].Title))]
  IN IF linkURL \in DOMAIN linkMap THEN to(linkMap[linkURL])
     ELSE LET fid == convExtractFileID(linkURL)
          IN IF ~fid.ok THEN keep
             ELSE IF IdKey(fid.id) \in DOMAIN linkMap THEN to(linkMap[IdKey(fid.id)])
                  ELSE keep

rewriteLinks(content, source) ==
  [k \in 1..Len(content) |-> rewriteLink(content[k], source)]

\* cap(results)
ResultsCap_none(n) == 0

ResultsCap(n) == n

\* c.existingPaths[outputPath] = true
Reserve_forget(paths, outputPath) == paths

Reserve(paths, outputPath) == paths \cup {outputPath}

\* where main goes after the worker loop and after the job loop
AfterSpawn(i) == IF i < convIn.workers THEN "spawn" ELSE
                 IF NumRecords > 0 THEN "send" ELSE "close"

AfterSend(i) == IF i < NumRecords THEN "send" ELSE "close"

ConvInit ==
  /\ DiscoverIdle
  /\ RetryIdle
  /\ PathIdle
  /\ SyncIdle
  /\ \E n \in 0..MaxRecords, workers \in 0..MaxWorkers,
        titleB \in {<<"t", "a">>, <<"b">>}, mimes \in [1..MaxRecords -> ConvMimes] :
       /\ \A i \in (n + 1)..MaxRecords : mimes[i] = MimeDoc
       /\ n < 2 => titleB = <<"b">>
       /\ convIn = [records |-> [i \in 1..n |-> ConvRecord(i, titleB, mimes)],
                    workers |-> workers]
       /\ attempts = [i \in 1..n |-> <<>>]
       /\ outPaths = [i \in 1..n |-> EmptyStr]
  /\ linkMap = <<>>
  /\ jobs = <<>>
  /\ jobsClosed = FALSE
  /\ results = <<>>
  /\ wk = [w \in Workers |-> [pc |-> "off", job |-> 0, links |-> <<>>,
                              path |-> EmptyStr, err |-> "nil", calls |-> <<>>]]
  /\ wg = 0
  /\ existingPaths = {}
  /\ disk = <<>>
  /\ mn = [pc |-> "index", i |-> 0]
  /\ convRet = "none"

discVars == <<storeVars, seen, depth, records, stack, urlIdx, calls, clones, pc,
              retErr, retryVars, pathVars, syncVars>>

CanBuildIndex == mn.pc = "index"

\* Convert builds the link map and makes the two channels
BuildIndex ==
  /\ CanBuildIndex
  /\ linkMap' = buildLinkMap(convIn.records, 1, <<>>)
  /\ mn' = [pc |-> AfterSpawn(0), i |-> 0]
  /\ UNCHANGED <<discVars, convIn, jobs, jobsClosed, results, wk, wg, existingPaths,
                 disk, attempts, outPaths, convRet>>

CanStartWorker == mn.pc = "spawn"

\* wg.Add(1); go func() { ... }()
StartWorker ==
  /\ CanStartWorker
  /\ wg' = wg + 1
  /\ wk' = [wk EXCEPT ![mn.i + 1].pc = "range"]
  /\ mn' = [pc |-> AfterSpawn(mn.i + 1), i |-> IF AfterSpawn(mn.i + 1) = "spawn"
                                               THEN mn.i + 1 ELSE 0]
  /\ UNCHANGED <<discVars, convIn, linkMap, jobs, jobsClosed, results, existingPaths,
                 disk, attempts, outPaths, convRet>>

\* the jobs channel holds len(records) entries
CanSendJob == mn.pc = "send" /\ Len(jobs) < NumRecords

\* jobs <- &records[i]
SendJob ==
  /\ CanSendJob
  /\ jobs' = Append(jobs, mn.i + 1)
  /\ mn' = [pc |-> AfterSend(mn.i + 1), i |-> mn.i + 1]
  /\ UNCHANGED <<discVars, convIn, linkMap, jobsClosed, results, wk, wg,
                 existingPaths, disk, attempts, outPaths, convRet>>

CanCloseJobs == mn.pc = "close"

\* close(jobs)
CloseJobs ==
  /\ CanCloseJobs
  /\ jobsClosed' = TRUE
  /\ mn' = [mn EXCEPT !.pc = "wait"]
  /\ UNCHANGED <<discVars, convIn, linkMap, jobs, results, wk, wg, existingPaths,
                 disk, attempts, outPaths, convRet>>

\* wg.Wait() blocks until the counter is zero
CanWaitDone == mn.pc = "wait" /\ wg = 0

\* wg.Wait() returns; close(results)
WaitDone ==
  /\ CanWaitDone
  /\ mn' = [mn EXCEPT !.pc = "collect"]
  /\ UNCHANGED <<discVars, convIn, linkMap, jobs, jobsClosed, results, wk, wg,
                 existingPaths, disk, attempts, outPaths, convRet>>

AnyError_first(res) == res # <<>> /\ res[1] # "nil"

\* len(errors) > 0 after the loop over the results
AnyError(res) == \E k \in DOMAIN res : res[k] # "nil"

CanCollect == mn.pc = "collect"

\* the loop over the closed results channel, and the return
Collect ==
  /\ CanCollect
  /\ convRet' = IF AnyError(results) THEN "error" ELSE "nil"
  /\ results' = <<>>
  /\ mn' = [mn EXCEPT !.pc = "done"]
  /\ UNCHANGED <<discVars, convIn, linkMap, jobs, jobsClosed, wk, wg, existingPaths,
                 disk, attempts, outPaths>>

\* a receive from jobs blocks while the channel is empty and open
CanTakeJob(w) == wk[w].pc = "range" /\ jobs # <<>>

\* for record := range jobs: worker w receives a job
TakeJob(w) ==
  /\ CanTakeJob(w)
  /\ jobs' = Tail(jobs)
  /\ wk' = [wk EXCEPT ![w] = [pc |-> "convert", job |-> Head(jobs), links |-> <<>>,
                              path |-> EmptyStr, err |-> "nil", calls |-> <<>>]]
  /\ attempts' = [attempts EXCEPT ![Head(jobs)] = Append(@, w)]
  /\ UNCHANGED <<discVars, convIn, linkMap, jobsClosed, results, wg, existingPaths,
                 disk, outPaths, mn, convRet>>

CanWorkerExit(w) == wk[w].pc = "range" /\ jobs = <<>> /\ jobsClosed

\* the jobs channel is closed and drained: the loop ends, wg.Done() runs
WorkerExit(w) ==
  /\ CanWorkerExit(w)
  /\ wk' = [wk EXCEPT ![w].pc = "exited"]
  /\ wg' = wg - 1
  /\ UNCHANGED <<discVars, convIn, linkMap, jobs, jobsClosed, results, existingPaths,
                 disk, attempts, outPaths, mn, convRet>>

CanFetchAndRewrite(w) == wk[w].pc = "convert"

\* convertRecord up to the rewritten content: the file ID, the metadata, the
\* export (unsupported types fail) and rewriteLinks
FetchAndRewrite(w) ==
  /\ CanFetchAndRewrite(w)
  /\ LET rec == convIn.records[wk[w].job]
     IN IF ~convExtractFileID(rec.Link).ok \/ ~IsGoogleApps(rec.mime)
             \/ ~convExportOK(rec)
        THEN wk' = [wk EXCEPT ![w].pc = "send", ![w].err = "error",
                              ![w].calls = convertCalls(rec)]
        ELSE wk' = [wk EXCEPT ![w].pc = "reserve",
                              ![w].calls = convertCalls(rec),
                              ![w].links = rewriteLinks(rec.content, wk[w].job)]
  /\ UNCHANGED <<discVars, convIn, linkMap, jobs, jobsClosed, results, wg,
                 existingPaths, disk, attempts, outPaths, mn, convRet>>

\* c.mu is free whenever a worker is between steps
CanReservePath(w) == wk[w].pc = "reserve"

\* c.mu.Lock(); EnsureUniquePath; c.existingPaths[outputPath] = true; Unlock
ReservePath(w) ==
  /\ CanReservePath(w)
  /\ LET rec == convIn.records[wk[w].job]
         outputPath == EnsureUniquePath(
                         BuildOutputPath(outputDir, normalizeFilename(rec.Title),
                                         rec.frags),
                         existingPaths)
     IN /\ existingPaths' = Reserve(existingPaths, outputPath)
        /\ outPaths' = [outPaths EXCEPT ![wk[w].job] = outputPath]
        /\ wk' = [wk EXCEPT ![w].path = outputPath,
                            ![w].pc = IF dryRun THEN "send" ELSE "write"]
  /\ UNCHANGED <<discVars, convIn, linkMap, jobs, jobsClosed, results, wg, disk,
                 attempts, mn, convRet>>

CanWriteFile(w) == wk[w].pc = "write"

\* os.MkdirAll and os.WriteFile
WriteFile(w) ==
  /\ CanWriteFile(w)
  /\ disk' = MapPut(disk, wk[w].path, [rec |-> wk[w].job, links |-> wk[w].links])
  /\ wk' = [wk EXCEPT ![w].pc = "send"]
  /\ UNCHANGED <<discVars, convIn, linkMap, jobs, jobsClosed, results, wg,
                 existingPaths, attempts, outPaths, mn, convRet>>

\* a send on results blocks while the buffer is full
CanSendResult(w) == wk[w].pc = "send" /\ Len(results) < ResultsCap(NumRecords)

\* results <- err
SendResult(w) ==
  /\ CanSendResult(w)
  /\ results' = Append(results, wk[w].err)
  /\ wk' = [wk EXCEPT ![w].pc = "range"]
  /\ UNCHANGED <<discVars, convIn, linkMap, jobs, jobsClosed, wg, existingPaths,
                 disk, attempts, outPaths, mn, convRet>>

ConvNext ==
  \/ BuildIndex
  \/ StartWorker
  \/ SendJob
  \/ CloseJobs
  \/ WaitDone
  \/ Collect
  \/ \E w \in Workers : TakeJob(w)
  \/ \E w \in Workers : WorkerExit(w)
  \/ \E w \in Workers : FetchAndRewrite(w)
  \/ \E w \in Workers : ReservePath(w)
  \/ \E w \in Workers : WriteFile(w)
  \/ \E w \in Workers : SendResult(w)

\* some goroutine of the pool can take a step: the guard of some action holds
\* (past its guard every action is an assignment)
ConvEnabled ==
  \/ CanBuildIndex \/ CanStartWorker \/ CanSendJob \/ CanCloseJobs
  \/ CanWaitDone \/ CanCollect
  \/ \E w \in Workers :
       \/ CanTakeJob(w) \/ CanWorkerExit(w) \/ CanFetchAndRewrite(w)
       \/ CanReservePath(w) \/ CanWriteFile(w) \/ CanSendResult(w)

SpecConvert == ConvInit /\ [][ConvNext]_vars

(***************************************************************************)
(* The text functions on their own: the two filename normalizers,          *)
(* utils.ExtractFileID, the rewriting of one matched link by Convert and   *)
(* by Sync, and the two line joins, applied to inputs of bounded size      *)
(***************************************************************************)
NameChars == {"A", "a", "2", " ", "-", ".", "!"}

NamePool == UNION {[1..n -> NameChars] : n \in 0..MaxTitleLen}

\* a run of 25 word characters
LongID == "LLLLLLLLLLLLLLLLLLLLLLLLL"

\* the path of "/forms/d/e/X", "/file/d/X/view", "/drive/folders/X",
\* "/folders/X/d/e/Y", "/d/e", "/file/d", "/open", "/file/<25 characters>",
\* "", "/file/d/" and "/folders/"
UrlPaths ==
  {<<"", "forms", "d", "e", "X">>, <<"", "file", "d", "X", "view">>,
   <<"", "drive", "folders", "X">>, <<"", "folders", "X", "d", "e", "Y">>,
   <<"", "d", "e">>, <<"", "file", "d">>, <<"", "open">>, <<"", "file", LongID>>,
   <<"">>, <<"", "file", "d", "">>, <<"", "folders", "">>}

UrlHosts == {"drive.google.com", "docs.google.com", "drive.google.com.evil.example",
             "other.com", ""}

UrlPool ==
  {Url(host, path, qid) : host \in UrlHosts, path \in UrlPaths, qid \in {"", "Q"}}
    \cup {MalformedUrl}

\* a form under its "/forms/d/e/<id>/viewform" link, and the same form under
\* its "/forms/d/e/<id>/edit" link
FormLink(id) == Url("docs.google.com", <<"", "forms", "d", "e", id, "viewform">>, "")

FormEdit(id) == Url("docs.google.com", <<"", "forms", "d", "e", id, "edit">>, "")

\* the inventory: document A listed twice, under its two URL forms and in
\* two places, document C, and the forms X and Y
Inventory ==
  <<[id |-> "A", Link |-> DocLink("A"), Title |-> <<"T", "a">>, frags |-> FragsX,
     mime |-> MimeDoc, content |-> <<>>],
    [id |-> "A", Link |-> FileLink("A"), Title |-> <<"b">>, frags |-> FragsNone,
     mime |-> MimeDoc, content |-> <<>>],
    [id |-> "C", Link |-> DocLink("C"), Title |-> <<"a", ".", "b">>, frags |-> FragsNone,
     mime |-> MimeDoc, content |-> <<>>],
    [id |-> "X", Link |-> FormLink("X"), Title |-> <<"x">>, frags |-> FragsX,
     mime |-> MimeDoc, content |-> <<>>],
    [id |-> "Y", Link |-> FormLink("Y"), Title |-> <<"y">>, frags |-> FragsNone,
     mime |-> MimeDoc, content |-> <<>>]>>

\* "/open?id=C"
OpenLink(id) == Url("drive.google.com", <<"", "open">>, id)

\* the store links a body may hold
LinkPool == {DocLink("A"), FileLink("A"), DocLink("C"), FileLink("C"), OpenLink("C"),
             FormLink("X"), FormEdit("X"),
             DocLink("Z"), NoIDUrl}

LinkTexts == {<<"a">>, <<"A", " ", "b">>}

Tokens == {UrlWord, PlainWord, NL, SP}

\* the texts of the model: no word stands next to a word
TextPool ==
  {x \in UNION {[1..n -> Tokens] : n \in 0..MaxTokens} :
     \A k \in 1..(Len(x) - 1) :
       ~(x[k] \in {UrlWord, PlainWord} /\ x[k + 1] \in {UrlWord, PlainWord})}

RECURSIVE SyncLinkMap(_, _, _)
\* the loop of Sync that indexes the records by URL and by file ID
SyncLinkMap(recs, i, m) ==
  IF i > Len(recs) THEN m
  ELSE LET byLink == MapPut(m, recs[i].Link, i)
           fid == ExtractFileID(recs[i].Link)
       IN SyncLinkMap(recs, i + 1,
                      IF fid.ok THEN MapPut(byLink, IdKey(fid.id), i) ELSE byLink)

\* the replacement LinkRewriter.RewriteLinks makes for one matched link
RewriteLink(linkURL, source, recs) ==
  LET m == SyncLinkMap(recs, 1, <<>>)
      keep == [rewritten |-> FALSE, url |-> linkURL, target |-> 0, rel |-> EmptyStr]
      to(t) == [rewritten |-> TRUE, url |-> linkURL, target |-> t,
                rel |-> CalculateRelativePath(recs[source].frags, recs[t].frags,
                                              NormalizeFilename(recs[t].Title))]
  IN IF linkURL \in DOMAIN m THEN to(m[linkURL])
     ELSE LET fid == ExtractFileID(linkURL)
          IN IF ~fid.ok THEN keep
             ELSE IF IdKey(fid.id) \in DOMAIN m THEN to(m[IdKey(fid.id)])
                  ELSE keep

\* the function handed to ReplaceAllStringFunc: match, or "[linkText](relPath)"
rewriteMatch(linkText, linkURL, source) ==
  [text |-> linkText, link |-> rewriteLink(linkURL, source)]

RewriteMatch(linkText, linkURL, source, recs) ==
  [text |-> linkText, link |-> RewriteLink(linkURL, source, recs)]

\* the characters that make buildFrontmatter quote a value
specialChars == {":", "#", "@", "&", "*", "!", "|", ">", "'", "\"", "%", "[", "]", "{", "}"}

RECURSIVE EscapeQuotes(_)
\* strings.ReplaceAll(value, "\"", "\\\"")
EscapeQuotes(value) ==
  IF value = <<>> THEN <<>>
  ELSE (IF Head(value) = "\"" THEN <<"\\", "\"">> ELSE <<Head(value)>>)
         \o EscapeQuotes(Tail(value))

\* the value as buildFrontmatter writes it
quoteValue(value) ==
  IF (\E i \in 1..Len(value) : value[i] \in specialChars)
       \/ (value # <<>> /\ value[1] = "-")
  THEN <<"\"">> \o EscapeQuotes(value) \o <<"\"">>
  ELSE value

\* the text buildFrontmatter writes after "key:"
fieldLine(value) == <<" ">> \o quoteValue(value)

\* the quotes left around the value
parseValue_keepQuotes(raw) == Trim(raw, spaceChars)

\* the value parseFrontmatter reads from the text after "key:"
parseValue(raw) == Trim(Trim(raw, spaceChars), {"\""})

\* the keys buildFrontmatter writes, in its order
order == <<"description", "editor", "gdrive-link", "hash-gdrive", "hash-content",
           "published", "tags", "title">>

\* the lines buildFrontmatter writes between the two "---" lines: one
\* "key: value" line for every key of order that fm has
buildFrontmatter(fm) ==
  LET line(k) == <<order[k], ":">> \o fieldLine(fm[order[k]])
      present == SelectSeq([k \in 1..Len(order) |-> k],
                           LAMBDA k : order[k] \in DOMAIN fm)
  IN [n \in 1..Len(present) |-> line(present[n])]

\* strings.SplitN(line, ":", 2) of a trimmed line, the key trimmed
SplitColon(line) ==
  LET t == Trim(line, spaceChars)
      at == {i \in 1..Len(t) : t[i] = ":"}
  IN IF at = {} THEN [ok |-> FALSE, key |-> <<>>, value |-> <<>>]
     ELSE LET i == CHOOSE k \in at : \A j \in at : k <= j
          IN [ok |-> TRUE, key |-> Trim(SubSeq(t, 1, i - 1), spaceChars),
              value |-> SubSeq(t, i + 1, Len(t))]

RECURSIVE parseLines(_, _, _)
\* the loop of parseFrontmatter over the lines of the header, from line i on
parseLines(lines, i, m) ==
  IF i > Len(lines) THEN m
  ELSE LET kv == SplitColon(lines[i])
       IN parseLines(lines, i + 1,
                     IF kv.ok /\ Len(kv.key) = 1
                     THEN MapPut(m, kv.key[1], parseValue(kv.value))
                     ELSE m)

\* parseFrontmatter of "---\n" + lines + "---\n": with no line between them
\* the text is "---\n---\n", in which no "\n---\n" follows the first four
\* characters
parseFrontmatterText(lines) ==
  IF lines = <<>> THEN [ok |-> FALSE, fm |-> <<>>]
  ELSE [ok |-> TRUE, fm |-> parseLines(lines, 1, <<>>)]

\* the columns of the conversion CSV
Columns == {"link", "title", "tags", "frag1", "frag2", "frag3", "frag4", "frag5"}

\* strings.ToLower of a column name of the model
ToLower(col) == IF col = "Link" THEN "link" ELSE col

\* colMap[col] of ParseConversionCSV, counted from 0: the last column of
\* that name, and the zero value of the map for a name the header lacks
colIndex(header, col) ==
  LET at == {i \in 1..Len(header) : ToLower(header[i]) = col}
  IN IF at = {} THEN 0 ELSE (CHOOSE i \in at : \A j \in at : j <= i) - 1

\* getString: the trimmed cell at index idx counted from 0, "" out of range
getString(row, idx) ==
  IF idx >= 0 /\ idx < Len(row) THEN Trim(row[idx + 1], spaceChars) ELSE <<>>

\* ParseConversionCSV of a header and rows that have as many cells as the
\* header (encoding/csv refuses the others): the records, or an error
ParseConversionCSV(header, rows) ==
  IF \E col \in {"link", "title"} : \A i \in 1..Len(header) : ToLower(header[i]) # col
  THEN [ok |-> FALSE, records |-> <<>>]
  ELSE LET rec(row) == [col \in Columns |-> getString(row, colIndex(header, col))]
       IN [ok |-> TRUE,
           records |-> SelectSeq([k \in 1..Len(rows) |-> rec(rows[k])],
                                 LAMBDA r : r["link"] # <<>> /\ r["title"] # <<>>)]

\* the headers of the model
CsvHeaders ==
  {<<"link", "title">>, <<"title", "Link">>, <<"title", "tags">>,
   <<"link", "title", "tags">>, <<"frag1", "link", "title">>,
   <<"link", "frag2", "title">>}

\* the cells of the model
CsvCells == {<<>>, <<"a">>, <<" ", "b">>}

\* the IDs and the MIME types a link is built from
LinkIDs == {"A", "e", "d", "folders", "edit", "a-b_1", LongID}

LinkMimes ==
  {MimeDoc, MimeSheet, "application/vnd.google-apps.presentation",
   "application/vnd.google-apps.form", "application/vnd.google-apps.drawing",
   MimeFolder, MimePdf}

\* the most rows in a CSV
MaxRows == 2

\* the longest header value
MaxValueLen == 2

\* the header values of the model
HeaderValues ==
  UNION {[1..n -> {"a", ":", "\"", " ", "-"}] : n \in 0..MaxValueLen}

\* the header maps of the model
HeaderMaps ==
  UNION {[keys -> HeaderValues] : keys \in SUBSET {"tags", "title"}}

TextInit ==
  /\ DiscoverIdle
  /\ RetryIdle
  /\ SyncIdle
  /\ convIn = [records |-> Inventory, workers |-> 0]
  /\ linkMap = buildLinkMap(Inventory, 1, <<>>)
  /\ jobs = <<>>
  /\ jobsClosed = FALSE
  /\ results = <<>>
  /\ wk = [w \in Workers |-> [pc |-> "off", job |-> 0, links |-> <<>>,
                              path |-> EmptyStr, err |-> "nil", calls |-> <<>>]]
  /\ wg = 0
  /\ existingPaths = {}
  /\ disk = <<>>
  /\ attempts = <<>>
  /\ outPaths = <<>>
  /\ mn = [pc |-> "idle", i |-> 0]
  /\ convRet = "none"
  /\ pathOut = [fn |-> "none"]
  /\ \/ \E name \in NamePool : pathIn = [fn |-> "normalize", name |-> name]
     \/ \E u \in UrlPool : pathIn = [fn |-> "extract", url |-> u]
     \/ \E linkText \in LinkTexts, linkURL \in LinkPool, source \in 1..Len(Inventory) :
          pathIn = [fn |-> "rewrite", linkText |-> linkText, linkURL |-> linkURL,
                    source |-> source]
     \/ \E text \in TextPool : pathIn = [fn |-> "join", text |-> text]
     \/ \E header \in CsvHeaders, n \in 1..MaxRows :
          \E rows \in [1..n -> [1..Len(header) -> CsvCells]] :
            pathIn = [fn |-> "csv", header |-> header, rows |-> rows]
     \/ \E fm \in HeaderMaps : pathIn = [fn |-> "header", fm |-> fm]
     \/ \E id \in LinkIDs, mime \in LinkMimes :
          pathIn = [fn |-> "link", id |-> id, mime |-> mime]

\* utils.NormalizeFilename and conversion's normalizeFilename of one name
ApplyNormalize ==
  /\ pathIn.fn = "normalize" /\ pathOut.fn = "none"
  /\ pathOut' = [fn |-> "normalize",
                 utils |-> NormalizeFilename(pathIn.name),
                 conv |-> normalizeFilename(pathIn.name)]
  /\ UNCHANGED <<storeVars, seen, depth, records, stack, urlIdx, calls, clones, pc,
                 retErr, retryVars, pathIn, convVars, syncVars>>

\* utils.ExtractFileID of one URL
ApplyExtract ==
  /\ pathIn.fn = "extract" /\ pathOut.fn = "none"
  /\ pathOut' = [fn |-> "extract",
                 ok |-> ExtractFileID(pathIn.url).ok,
                 id |-> ExtractFileID(pathIn.url).id]
  /\ UNCHANGED <<storeVars, seen, depth, records, stack, urlIdx, calls, clones, pc,
                 retErr, retryVars, pathIn, convVars, syncVars>>

\* one link of a body of the source record, rewritten by Convert and by Sync
ApplyRewrite ==
  /\ pathIn.fn = "rewrite" /\ pathOut.fn = "none"
  /\ pathOut' = [fn |-> "rewrite",
                 conv |-> rewriteMatch(pathIn.linkText, pathIn.linkURL, pathIn.source),
                 sync |-> RewriteMatch(pathIn.linkText, pathIn.linkURL, pathIn.source,
                                       convIn.records)]
  /\ UNCHANGED <<storeVars, seen, depth, records, stack, urlIdx, calls, clones, pc,
                 retErr, retryVars, pathIn, convVars, syncVars>>

\* utils.NormalizeMultilineURLs and conversion's normalizeMultilineURLs of one text
ApplyJoin ==
  /\ pathIn.fn = "join" /\ pathOut.fn = "none"
  /\ pathOut' = [fn |-> "join",
                 utils |-> NormalizeMultilineURLs(pathIn.text),
                 conv |-> normalizeMultilineURLs(pathIn.text)]
  /\ UNCHANGED <<storeVars, seen, depth, records, stack, urlIdx, calls, clones, pc,
                 retErr, retryVars, pathIn, convVars, syncVars>>

\* ParseConversionCSV of one file
ApplyParse ==
  /\ pathIn.fn = "csv" /\ pathOut.fn = "none"
  /\ pathOut' = [fn |-> "csv",
                 ok |-> ParseConversionCSV(pathIn.header, pathIn.rows).ok,
                 records |-> ParseConversionCSV(pathIn.header, pathIn.rows).records]
  /\ UNCHANGED <<storeVars, seen, depth, records, stack, urlIdx, calls, clones, pc,
                 retErr, retryVars, pathIn, convVars, syncVars>>

\* a header map written by buildFrontmatter and read back by parseFrontmatter
ApplyHeader ==
  /\ pathIn.fn = "header" /\ pathOut.fn = "none"
  /\ pathOut' = [fn |-> "header",
                 ok |-> parseFrontmatterText(buildFrontmatter(pathIn.fm)).ok,
                 fm |-> parseFrontmatterText(buildFrontmatter(pathIn.fm)).fm]
  /\ UNCHANGED <<storeVars, seen, depth, records, stack, urlIdx, calls, clones, pc,
                 retErr, retryVars, pathIn, convVars, syncVars>>

\* utils.ExtractFileID of the link utils.BuildFileLink makes
ApplyLink ==
  /\ pathIn.fn = "link" /\ pathOut.fn = "none"
  /\ pathOut' = [fn |-> "link",
                 ok |-> ExtractFileID(BuildFileLink(pathIn.id, pathIn.mime)).ok,
                 id |-> ExtractFileID(BuildFileLink(pathIn.id, pathIn.mime)).id]
  /\ UNCHANGED <<storeVars, seen, depth, records, stack, urlIdx, calls, clones, pc,
                 retErr, retryVars, pathIn, convVars, syncVars>>

TextNext ==
  \/ ApplyLink
  \/ ApplyNormalize
  \/ ApplyExtract
  \/ ApplyRewrite
  \/ ApplyJoin
  \/ ApplyParse
  \/ ApplyHeader

SpecText == TextInit /\ [][TextNext]_vars

(***************************************************************************)
(* Sync of one markdown file (src/unnamed/part_003, package sync).  The    *)
(* file is kept as the fields of its header that syncFile reads and        *)
(* writes: the text after "hash-gdrive:" character by character, the       *)
(* gdrive-link and hash-content values, and the body.  The remote marker   *)
(* is the modifiedTime of the document.                                    *)
(***************************************************************************)
Stub == <<"s", "t", "u", "b">>

\* two modification times, "1:0" and "2:0"
Markers == {<<"1", ":", "0">>, <<"2", ":", "0">>}

\* utils.CalculateStringHash
CalculateStringHash(content) == [sha256 |-> content]

MdFile(state, hasHash, rawHash, hasLink, link, hashContent, body) ==
  [state |-> state, hasHash |-> hasHash, rawHash |-> rawHash, hasLink |-> hasLink,
   link |-> link, hashContent |-> hashContent, body |-> body]

\* the body of a file nobody has written yet
OldBody == [preamble |-> NoIDUrl, links |-> <<>>]

\* the map and the error of parseFrontmatter
parseFrontmatter(file) ==
  [ok |-> file.state = "ok",
   hasHash |-> file.hasHash, hash |-> parseValue(file.rawHash),
   hasLink |-> file.hasLink, link |-> file.link]

\* the drive.File of getFileMetadata
RemoteFile(fileID, rem) == [id |-> fileID, ModifiedTime |-> rem.marker, MimeType |-> rem.mime]

\* the stored value compared with the quoted word
IsStub_quoted(oldHash) == oldHash = <<"\"">> \o Stub \o <<"\"">>

IsStub(oldHash) == oldHash = Stub

\* the stored value compared with the wrong field of the file
SameMarker_id(oldHash, file) == oldHash = <<file.id>>

SameMarker(oldHash, file) == oldHash = file.ModifiedTime

SyncResult(status, cs, after, wrote) ==
  [status |-> status, calls |-> cs, after |-> after, wrote |-> wrote]

\* the file a failed os.WriteFile leaves: the old one when the open fails,
\* a truncated one when the open succeeds and the write fails
failedWrite(file, torn) ==
  IF torn THEN MdFile("noheader", FALSE, <<>>, FALSE, NoIDUrl, file.hashContent,
                      [preamble |-> NoIDUrl, links |-> <<>>])
  ELSE file

\* the record looked up in the link map after the file is written
syncExport_lateLookup(file, gdriveLink, fileID, marker, rem, faults, dry) ==
  LET m == SyncLinkMap(Inventory, 1, <<>>)
      body == [preamble |-> gdriveLink,
               links |-> IF IdKey(fileID) \in DOMAIN m
                         THEN [k \in 1..Len(rem.content) |->
                                 RewriteLink(rem.content[k], m[IdKey(fileID)], Inventory)]
                         ELSE <<>>]
      new == MdFile("ok", TRUE, fieldLine(marker), TRUE, gdriveLink,
                    CalculateStringHash(body), body)
  IN IF ~faults.exportOK THEN SyncResult("error", <<"get", "export">>, file, FALSE)
     ELSE IF dry THEN SyncResult("updated", <<"get", "export">>, file, FALSE)
     ELSE IF ~faults.writeOK
          THEN SyncResult("error", <<"get", "export">>, failedWrite(file, faults.torn),
                          faults.torn)
     ELSE IF IdKey(fileID) \notin DOMAIN m
          THEN SyncResult("error", <<"get", "export">>, new, TRUE)
     ELSE SyncResult("updated", <<"get", "export">>, new, TRUE)

\* syncFile from the export on: fileID is in hand and the marker has changed
syncExport(file, gdriveLink, fileID, marker, rem, faults, dry) ==
  LET m == SyncLinkMap(Inventory, 1, <<>>)
      body == [preamble |-> gdriveLink,
               links |-> [k \in 1..Len(rem.content) |->
                            RewriteLink(rem.content[k], m[IdKey(fileID)], Inventory)]]
  IN IF ~faults.exportOK THEN SyncResult("error", <<"get", "export">>, file, FALSE)
     ELSE IF IdKey(fileID) \notin DOMAIN m
          THEN SyncResult("error", <<"get", "export">>, file, FALSE)
     ELSE IF dry THEN SyncResult("updated", <<"get", "export">>, file, FALSE)
     ELSE IF ~faults.writeOK
          THEN SyncResult("error", <<"get", "export">>, failedWrite(file, faults.torn),
                          faults.torn)
     ELSE SyncResult("updated", <<"get", "export">>,
                     MdFile("ok", TRUE, fieldLine(marker), TRUE, gdriveLink,
                            CalculateStringHash(body), body),
                     TRUE)

\* syncFile from the metadata fetch on
syncFetch(file, oldHash, gdriveLink, fileID, rem, faults, dry) ==
  LET meta == RemoteFile(fileID, rem)
  IN IF ~faults.metaOK THEN SyncResult("error", <<"get">>, file, FALSE)
     ELSE IF SameMarker(oldHash, meta) THEN SyncResult("unchanged", <<"get">>, file, FALSE)
     ELSE IF ~IsGoogleApps(rem.mime) THEN SyncResult("error", <<"get">>, file, FALSE)
     ELSE syncExport(file, gdriveLink, fileID, rem.marker, rem, faults, dry)

\* syncFile from the stub check on: the header has a hash-gdrive field
syncHeader(file, oldHash, hasLink, gdriveLink, rem, faults, dry) ==
  LET fid == ExtractFileID(gdriveLink)
  IN IF IsStub(oldHash) THEN SyncResult("skipped", <<>>, file, FALSE)
     ELSE IF ~hasLink THEN SyncResult("skipped", <<>>, file, FALSE)
     ELSE IF ~fid.ok THEN SyncResult("error", <<>>, file, FALSE)
     ELSE syncFetch(file, oldHash, gdriveLink, fid.id, rem, faults, dry)

\* syncFile: the status, the remote calls issued, the file it leaves and
\* whether os.WriteFile wrote it
syncFile(file, rem, faults, dry) ==
  IF file.state = "unreadable" THEN SyncResult("error", <<>>, file, FALSE)
  ELSE IF ~parseFrontmatter(file).ok THEN SyncResult("error", <<>>, file, FALSE)
  ELSE IF ~file.hasHash THEN SyncResult("skipped", <<>>, file, FALSE)
  ELSE syncHeader(file, parseFrontmatter(file).hash, file.hasLink, file.link,
                  rem, faults, dry)

\* what follows "hash-gdrive:" in the files of the model: a marker as
\* buildFrontmatter writes it, the same marker without quotes, the stub
\* word bare and quoted
RawHashes ==
  {fieldLine(mk) : mk \in Markers} \cup {<<" ", "1", ":", "0">>, fieldLine(Stub),
                                        <<" ", "\"">> \o Stub \o <<"\"">>}

\* the gdrive-link values of the model
SyncLinks == {DocLink("A"), DocLink("Z"), NoIDUrl, BadHostUrl}

\* the first call that fails in a run, if any: the metadata fetch, the
\* export, or os.WriteFile, which then leaves the file whole or torn
SyncFaults ==
  {f \in [metaOK : BOOLEAN, exportOK : BOOLEAN, writeOK : BOOLEAN, torn : BOOLEAN] :
     /\ ~f.metaOK => f.exportOK /\ f.writeOK
     /\ ~f.exportOK => f.writeOK
     /\ f.torn => ~f.writeOK}

SyncInit ==
  /\ DiscoverIdle
  /\ RetryIdle
  /\ PathIdle
  /\ ConvIdle
  /\ syncResults = <<>>
  /\ txn = [pc |-> "none"]
  /\ syncDryRun \in BOOLEAN
  /\ \E mk \in Markers, mime \in {MimeDoc, MimePdf},
        content \in {<<DocLink("C")>>, <<FileLink("A"), DocLink("Z")>>} :
       remote = [marker |-> mk, mime |-> mime, content |-> content]
  /\ \/ \E state \in {"unreadable", "noheader"} :
          mdFile = MdFile(state, FALSE, <<>>, FALSE, NoIDUrl, CalculateStringHash(OldBody),
                          OldBody)
     \/ \E hasHash \in BOOLEAN, raw \in RawHashes, hasLink \in BOOLEAN, link \in SyncLinks :
          /\ ~hasHash => raw = fieldLine(Stub)
          /\ ~hasLink => link = NoIDUrl
          /\ mdFile = MdFile("ok", hasHash, raw, hasLink, link,
                             CalculateStringHash(OldBody), OldBody)

\* one run of Sync over the file: syncFile with the remote answering as it does
SyncPass ==
  /\ Len(syncResults) < MaxPasses
  /\ \E faults \in SyncFaults :
       \E out \in {syncFile(mdFile, remote, faults, syncDryRun)} :
          /\ mdFile' = out.after
          /\ syncResults' = Append(syncResults,
                                   [status |-> out.status, calls |-> out.calls,
                                    wrote |-> out.wrote, before |-> mdFile,
                                    after |-> out.after, marker |-> remote.marker,
                                    content |-> remote.content,
                                    metaOK |-> faults.metaOK,
                                    faults |-> faults])
  /\ UNCHANGED <<storeVars, seen, depth, records, stack, urlIdx, calls, clones, pc,
                 retErr, retryVars, pathVars, convVars, remote, syncDryRun, txn>>

\* the document is edited in the store between two runs
RemoteEdit ==
  /\ syncResults # <<>>
  /\ Len(syncResults) < MaxPasses
  /\ remote.marker = <<"1", ":", "0">>
  /\ remote' = [remote EXCEPT !.marker = <<"2", ":", "0">>,
                              !.content = <<DocLink("C")>>]
  /\ UNCHANGED <<storeVars, seen, depth, records, stack, urlIdx, calls, clones, pc,
                 retErr, retryVars, pathVars, convVars, mdFile, syncDryRun,
                 syncResults, txn>>

SyncNext == SyncPass \/ RemoteEdit

SpecSync == SyncInit /\ [][SyncNext]_vars

(***************************************************************************)
(* One document taken through convertRecord and then through syncFile,     *)
(* one remote call or local write at a time, while the document is         *)
(* edited in the store (src/internal/conversion/conversion.go, lines       *)
(* 627-830, and src/unnamed/part_003, lines 159-291).  A revision of the   *)
(* document is a number; its modifiedTime grows with every edit.           *)
(***************************************************************************)
NoFile == [marker |-> 0, content |-> 0]

\* the modifiedTime read after the export instead of before it
exportStamp_late(fetched, now) == now

\* the revision hash exportAsMarkdown, convertPDFViaGoogleDocs, convertPDF
\* and syncFile put in the header: the modifiedTime fetched before the export
exportStamp(fetched, now) == fetched

\* a line of the log, printed or not
logIf(cond, line) == IF cond THEN <<line>> ELSE <<>>

\* an operation on the local file system
FsOp(by, op) == [by |-> by, op |-> op]

TxnInit ==
  /\ DiscoverIdle
  /\ RetryIdle
  /\ PathIdle
  /\ ConvIdle
  /\ mdFile = [state |-> "none"]
  /\ remote = [marker |-> <<>>]
  /\ syncDryRun = FALSE
  /\ syncResults = <<>>
  /\ \E mime \in {MimeDoc, MimePdf, MimePng}, dry \in BOOLEAN, sdry \in BOOLEAN,
        verbose \in BOOLEAN :
       txn = [pc |-> "meta", mime |-> mime, dry |-> dry, sdry |-> sdry,
              verbose |-> verbose, ver |-> 1, meta |-> 0, got |-> 0,
              clone |-> "none", cloneVer |-> 0, err |-> FALSE, fs |-> <<>>,
              log |-> <<>>, file |-> NoFile, ret |-> "none", passes |-> <<>>]

txnRest == <<storeVars, seen, depth, records, stack, urlIdx, calls, clones, pc,
             retErr, retryVars, pathVars, convVars, mdFile, remote, syncDryRun,
             syncResults>>

\* the document is edited in the store
RemoteModify ==
  /\ txn.pc # "none"
  /\ txn.ver < MaxVersion
  /\ txn' = [txn EXCEPT !.ver = @ + 1]
  /\ UNCHANGED txnRest

\* convertRecord: getFileMetadata and the branch on the MIME type
GetMetadata ==
  /\ txn.pc = "meta"
  /\ \E ok \in BOOLEAN :
       txn' = IF ~ok THEN [txn EXCEPT !.pc = "done", !.ret = "error"]
              ELSE IF IsGoogleApps(txn.mime)
                   THEN [txn EXCEPT !.pc = "xmeta", !.meta = txn.ver]
              ELSE IF txn.mime = MimePdf
                   THEN [txn EXCEPT !.pc = "copy", !.meta = txn.ver]
              ELSE [txn EXCEPT !.pc = "done", !.ret = "error", !.meta = txn.ver]
  /\ UNCHANGED txnRest

\* exportAsMarkdown: getFileMetadata for the revision hash
ExportMetadata ==
  /\ txn.pc = "xmeta"
  /\ \E ok \in BOOLEAN :
       txn' = IF ok THEN [txn EXCEPT !.pc = "export", !.meta = txn.ver]
              ELSE [txn EXCEPT !.pc = "done", !.ret = "error"]
  /\ UNCHANGED txnRest

\* exportAsMarkdown: executeExportWithRetry and io.ReadAll
ExportMarkdown ==
  /\ txn.pc = "export"
  /\ \E ok \in BOOLEAN :
       txn' = IF ok THEN [txn EXCEPT !.pc = "finish", !.got = txn.ver]
              ELSE [txn EXCEPT !.pc = "done", !.ret = "error"]
  /\ UNCHANGED txnRest

\* convertPDFViaGoogleDocs: Files.Copy, or the fall back to convertPDF
CopyAsDoc ==
  /\ txn.pc = "copy"
  /\ \E ok \in BOOLEAN :
       txn' = IF ok THEN [txn EXCEPT !.pc = "cexport", !.clone = "live",
                                     !.cloneVer = txn.ver]
              ELSE [txn EXCEPT !.pc = "fmeta",
                               !.log = @ \o logIf(txn.verbose, "Warning: Failed to convert PDF")]
  /\ UNCHANGED txnRest

\* convertPDFViaGoogleDocs: the export of the copy
ExportCopy ==
  /\ txn.pc = "cexport"
  /\ \E ok \in BOOLEAN :
       txn' = IF ok THEN [txn EXCEPT !.pc = "delete", !.got = txn.cloneVer]
              ELSE [txn EXCEPT !.pc = "delete", !.err = TRUE]
  /\ UNCHANGED txnRest

\* convertPDFViaGoogleDocs: the deferred Files.Delete of the copy, and the
\* return to convertRecord
DeleteCopy ==
  /\ txn.pc = "delete"
  /\ \E ok \in BOOLEAN :
       txn' = [txn EXCEPT
                 !.clone = IF ok THEN "deleted" ELSE "left",
                 !.log = @ \o logIf(~ok /\ txn.verbose,
                                    "Warning: Failed to delete temporary file"),
                 !.pc = IF txn.err THEN "done" ELSE "finish",
                 !.ret = IF txn.err THEN "error" ELSE @]
  /\ UNCHANGED txnRest

\* convertPDF: getFileMetadata for the revision hash
FallbackMetadata ==
  /\ txn.pc = "fmeta"
  /\ \E ok \in BOOLEAN :
       txn' = IF ok THEN [txn EXCEPT !.pc = "download", !.meta = txn.ver]
              ELSE [txn EXCEPT !.pc = "done", !.ret = "error"]
  /\ UNCHANGED txnRest

\* convertPDF: executeDownloadWithRetry
Download ==
  /\ txn.pc = "download"
  /\ \E ok \in BOOLEAN :
       txn' = IF ok THEN [txn EXCEPT !.pc = "temp", !.got = txn.ver]
              ELSE [txn EXCEPT !.pc = "done", !.ret = "error"]
  /\ UNCHANGED txnRest

\* convertPDF: os.CreateTemp, io.Copy into the file, convertPDFToMarkdown and
\* the deferred os.Remove
TempFile ==
  /\ txn.pc = "temp"
  /\ \E ok \in BOOLEAN :
       txn' = [txn EXCEPT
                 !.fs = @ \o <<FsOp("convert", "CreateTemp"), FsOp("convert", "Write"),
                               FsOp("convert", "Remove")>>,
                 !.pc = IF ok THEN "finish" ELSE "done",
                 !.ret = IF ok THEN @ ELSE "error"]
  /\ UNCHANGED txnRest

\* convertRecord: rewriteLinks, generateFrontmatter, the output path, and the
\* return of a dry run
FinishRecord ==
  /\ txn.pc = "finish"
  /\ txn' = IF txn.dry
            THEN [txn EXCEPT !.pc = "done", !.ret = "nil",
                             !.log = @ \o <<"Would write">>]
            ELSE [txn EXCEPT !.pc = "write"]
  /\ UNCHANGED txnRest

\* convertRecord: os.MkdirAll and os.WriteFile
WriteOutput ==
  /\ txn.pc = "write"
  /\ \E ok \in BOOLEAN :
       txn' = [txn EXCEPT
                 !.fs = @ \o <<FsOp("convert", "MkdirAll"), FsOp("convert", "WriteFile")>>,
                 !.file = IF ok THEN [marker |-> exportStamp(txn.meta, txn.ver),
                                      content |-> txn.got]
                          ELSE @,
                 !.pc = "done",
                 !.ret = IF ok THEN "nil" ELSE "error"]
  /\ UNCHANGED txnRest

\* the outcome of a run of syncFile over the file
Pass(status, marker) ==
  [status |-> status, before |-> txn.file, marker |-> marker, store |-> txn.ver]

\* syncFile: getFileMetadata and the comparison with the stored marker
SyncMetadata ==
  /\ txn.pc = "done"
  /\ txn.file # NoFile
  /\ Len(txn.passes) < MaxPasses
  /\ \E ok \in BOOLEAN :
       txn' = IF ~ok THEN [txn EXCEPT !.passes = Append(@, Pass("error", 0))]
              ELSE IF txn.file.marker = txn.ver
                   THEN [txn EXCEPT !.passes = Append(@, Pass("unchanged", txn.ver))]
              ELSE [txn EXCEPT !.pc = "sexport", !.meta = txn.ver]
  /\ UNCHANGED txnRest

\* syncFile: exportDocument
SyncExport ==
  /\ txn.pc = "sexport"
  /\ \E ok \in BOOLEAN :
       txn' = IF ok THEN [txn EXCEPT !.pc = "swrite", !.got = txn.ver]
              ELSE [txn EXCEPT !.pc = "done",
                               !.passes = Append(@, Pass("error", txn.meta))]
  /\ UNCHANGED txnRest

\* syncFile: the new header and body, the return of a dry run, os.WriteFile
SyncWrite ==
  /\ txn.pc = "swrite"
  /\ \E ok \in BOOLEAN :
       txn' = IF txn.sdry
              THEN [txn EXCEPT !.pc = "done", !.log = @ \o <<"Would update">>,
                               !.passes = Append(@, Pass("updated", txn.meta))]
              ELSE [txn EXCEPT
                      !.pc = "done",
                      !.fs = @ \o <<FsOp("sync", "WriteFile")>>,
                      !.file = IF ok THEN [marker |-> exportStamp(txn.meta, txn.ver),
                                           content |-> txn.got]
                               ELSE @,
                      !.passes = Append(@, Pass(IF ok THEN "updated" ELSE "error",
                                                txn.meta))]
  /\ UNCHANGED txnRest

TxnNext ==
  \/ RemoteModify
  \/ GetMetadata
  \/ ExportMetadata
  \/ ExportMarkdown
  \/ CopyAsDoc
  \/ ExportCopy
  \/ DeleteCopy
  \/ FallbackMetadata
  \/ Download
  \/ TempFile
  \/ FinishRecord
  \/ WriteOutput
  \/ SyncMetadata
  \/ SyncExport
  \/ SyncWrite

SpecRecord == TxnInit /\ [][TxnNext]_vars

(***************************************************************************)
(* Properties                                                              *)
(***************************************************************************)
Done == pc = "done"

Range(s) == {s[k] : k \in DOMAIN s}

\* the ID a record's link identifies
RecordID(r) == IF extractFileID(r.link).ok THEN extractFileID(r.link).id ELSE ""

\* how many records of the output are for the entity id
CountFor(id) == Cardinality({k \in DOMAIN records : RecordID(records[k]) = id})

\* the entities the listing of a folder holds
Children(f) == UNION {Range(pages(f)[p]) : p \in DOMAIN pages(f)}

RECURSIVE LeafDescendants(_)
LeafDescendants(f) ==
  (Children(f) \cap LeafIDs)
    \cup UNION {LeafDescendants(g) : g \in (Children(f) \cap FolderIDs) \ {f}}

\* the folders the run reached: through a seed or through a link
ReachedFolders == {f \in FolderIDs : depth[f] >= 0 /\ MetaResponse(f).ok}

\* the remote operations issued on behalf of the visit of id
CallsBy(id, ops) == {k \in DOMAIN calls : calls[k].by = id /\ calls[k].op \in ops}

\* C1: in one Discover run every non-folder descendant of a folder reachable
\* from the seeds yields exactly one inventory record, never zero and never
\* more than one.
C1_DescendantsOnce ==
  Done => \A f \in ReachedFolders : \A x \in LeafDescendants(f) : CountFor(x) = 1

\* the longest link list a document of the store holds
MaxLinkCount ==
  CHOOSE n \in 0..Cardinality(IDs) :
    /\ \A id \in LeafIDs : Len(links[id]) <= n
    /\ \E id \in LeafIDs : Len(links[id]) = n

\* the steps a frame still owes before it returns, not counting the visits of
\* IDs that are still unvisited
FrameWork(f) ==
  CASE f.pc = "check" -> 1
    [] f.pc = "meta" -> 2 * MaxLinkCount + 3
    [] f.pc = "extract" -> 2 * MaxLinkCount + 2
    [] OTHER -> 2 * Len(f.links) + 1

RECURSIVE SumWork(_)
SumWork(st) == IF st = <<>> THEN 0 ELSE FrameWork(Head(st)) + SumWork(Tail(st))

\* a bound on the steps the run has left: every unvisited ID pays for one
\* whole visit, every seed left for one call of the seed loop
Measure ==
  (2 * MaxLinkCount + 3) * Cardinality(IDs \ seen)
    + SumWork(stack)
    + 3 * (Len(seeds) + 1 - urlIdx)
    - (IF stack # <<>> THEN 2 ELSE 0)
    + (IF pc = "run" THEN 1 ELSE 0)

\* C2: DiscoverFromURLs terminates for every finite store and every maxDepth,
\* also when documents link to each other in cycles: every step of the run
\* lowers a natural-number bound on the steps left, and the run has a next
\* step until it has returned.
C2_Terminates ==
  /\ [](Measure >= 0 /\ (~Done => ENABLED Next))
  /\ [][Measure' < Measure]_vars

\* a finished run over documents A and B that link to each other, both read
C2_Witness ==
  /\ Done
  /\ LinkTo("B") \in Range(links["A"])
  /\ LinkTo("A") \in Range(links["B"])
  /\ CallsBy("A", {"export"}) # {}
  /\ CallsBy("B", {"export"}) # {}

\* C3: for a document visited at depth = maxDepth no link extraction is
\* performed: no export, copy or delete call is issued for it and the visit
\* follows none of its links (it has no link loop and no visit below it).
C3_NoExtractionAtMaxDepth ==
  /\ \A k \in DOMAIN stack :
       stack[k].depth = maxDepth =>
         /\ stack[k].pc \notin {"extract", "links"}
         /\ stack[k].links = <<>>
         /\ k = Len(stack)
  /\ \A id \in IDs :
       depth[id] = maxDepth => CallsBy(id, {"export", "copy", "delete"}) = {}

\* a finished run that visited, at maxDepth >= 1, a readable document whose
\* text holds links
C3_Witness ==
  /\ Done
  /\ maxDepth >= 1
  /\ \E id \in LeafIDs :
       /\ depth[id] = maxDepth
       /\ links[id] # <<>>
       /\ MimeType(id) \in {MimeDoc, MimePdf}
       /\ CallsBy(id, {"get"}) # {}
       /\ CountFor(id) = 1

C4_State ==
  /\ \A id \in IDs : Cardinality(CallsBy(id, {"get"})) <= 1
  /\ \A k \in DOMAIN calls : calls[k].by \in seen

C4_Step ==
  /\ seen \subseteq seen'
  /\ \A id \in IDs : depth[id] >= 0 => depth'[id] = depth[id]
  /\ (stack # <<>> /\ Top.pc = "check" /\ Top.id \in seen) =>
       /\ calls' = calls
       /\ seen' = seen
       /\ records' = records
       /\ Len(stack') = Len(stack) - 1
       /\ \A k \in DOMAIN stack' : stack'[k].records = stack[k].records
  /\ (stack # <<>> /\ Top.pc = "check" /\ Top.id \notin seen) =>
       /\ Top.id \in seen'
       /\ calls' = calls

\* C4: the visited check-and-insert is one step that precedes every remote
\* call for the ID; an ID never leaves the visited set; a Visit of a visited ID
\* returns no records and issues no remote call; metadata of one ID is fetched
\* by at most one Visit.
C4_VisitAtMostOnce == [](C4_State) /\ [][C4_Step]_vars

\* a Visit of an ID whose metadata was already fetched is about to return
C4_Witness ==
  /\ stack # <<>>
  /\ Top.pc = "check"
  /\ Top.id \in seen
  /\ CallsBy(Top.id, {"get"}) # {}

\* C5: folder expansion does not consume depth budget: a leaf found as a child
\* of a folder reached at depth k < maxDepth is visited, and unless it had
\* been visited at maxDepth before, its text is exported for link extraction.
C5_FolderChildrenExtracted ==
  Done =>
    \A f \in ReachedFolders : \A c \in Children(f) \cap LeafIDs :
      depth[f] < maxDepth =>
        /\ depth[c] >= 0
        /\ (depth[c] < maxDepth /\ MimeType(c) = MimeDoc /\ MetaResponse(c).ok)
             => CallsBy(c, {"export"}) # {}

\* a document whose links discovery can read
Followable(id) ==
  /\ id \in LeafIDs
  /\ MetaResponse(id).ok
  /\ \/ MimeType(id) = MimeDoc /\ ExportOK(id)
     \/ MimeType(id) = MimePdf /\ CopyOK(id) /\ ExportOK(CloneID)

LinkTargets(id) ==
  {extractFileID(u).id : u \in {v \in Range(links[id]) : extractFileID(v).ok}}

RECURSIVE ReachWithin(_, _)
\* the entities within k links of the set S, through readable documents
ReachWithin(S, k) ==
  IF k = 0 THEN S
  ELSE ReachWithin(S \cup UNION {LinkTargets(x) : x \in {y \in S : Followable(y)}},
                   k - 1)

SeedDocs ==
  {extractFileID(u).id : u \in {v \in Range(seeds) : extractFileID(v).ok}} \cap LeafIDs

\* C6: every document within maxDepth in-content links of a seed document,
\* through accessible and exportable documents, appears in the output.
C6_ReachableDiscovered ==
  Done => \A x \in ReachWithin(SeedDocs, maxDepth) \cap LeafIDs : CountFor(x) >= 1

\* the status the transport failure stands for
StatusOfFailure(err) ==
  CASE err.kind = "api" /\ err.code = 404 -> "deleted"
    [] err.kind = "api" /\ err.code = 403 -> "permission_denied"
    [] err.kind = "api" /\ err.code = 400 -> "invalid"
    [] OTHER -> "error"

\* C7: when the metadata fetch of a visited ID fails, exactly one record is
\* emitted for it: status by the transport failure (404 deleted, 403
\* permission_denied, 400 invalid, else error), title the ID, link the URL it
\* was reached by.
C7_FailureStatus ==
  Done =>
    \A id \in IDs :
      (depth[id] >= 0 /\ ~MetaResponse(id).ok) =>
        /\ CountFor(id) = 1
        /\ \A k \in DOMAIN records :
             RecordID(records[k]) = id =>
               /\ records[k].status = StatusOfFailure(MetaResponse(id).err)
               /\ records[k].title = id
               /\ records[k].link \in Range(seeds) \cup UNION {Range(links[x]) : x \in LeafIDs}

Occurrences(s, x) == Cardinality({k \in DOMAIN s : s[k] = x})

\* C8: a seed with no extractable ID yields exactly one record {link = the
\* literal seed URL, title = INVALID_URL, status = invalid}; every later seed
\* is still processed and DiscoverFromURLs returns no error.
C8_InvalidSeeds ==
  /\ retErr \in {"none", "nil"}
  /\ Done =>
       /\ retErr = "nil"
       /\ urlIdx = Len(seeds) + 1
       /\ \A u \in Range(seeds) :
            ~extractFileID(u).ok =>
              /\ Occurrences(records, [link |-> u, title |-> "INVALID_URL",
                                       status |-> "invalid"])
                   = Occurrences(seeds, u)
              /\ \A k \in DOMAIN records :
                   records[k].link = u => /\ records[k].title = "INVALID_URL"
                                          /\ records[k].status = "invalid"
       /\ \A u \in Range(seeds) : extractFileID(u).ok => extractFileID(u).id \in seen

\* a finished run whose first seed was invalid and whose second was visited
C8_Witness ==
  /\ Done
  /\ Len(seeds) >= 2
  /\ ~extractFileID(seeds[1]).ok
  /\ extractFileID(seeds[2]).ok
  /\ CountFor(extractFileID(seeds[2]).id) = 1
  /\ Len(records) = 2

\* the first k answers were all the rate-limit signal
AllRateLimited(k) ==
  \A j \in 1..k : j <= Len(rlog) /\ ~rlog[j].ok /\ rlog[j].err \in RateLimitErrs

\* C9: under a persistent rate-limit signal the executor calls 6 times: 5
\* attempts, each followed by a sleep of 1, 2, 4, 8, 16 s, then a final attempt
\* whose outcome is returned; a success returns at once with no further call.
C9_RetrySchedule ==
  /\ rst.calls = Len(rlog)
  /\ rst.calls <= 6
  /\ (Len(rlog) <= 5 /\ AllRateLimited(Len(rlog))) =>
       /\ ~rst.done
       /\ rst.sleeps = SubSeq(<<1, 2, 4, 8, 16>>, 1, Len(rlog))
  /\ (Len(rlog) = 6 /\ AllRateLimited(5)) =>
       /\ rst.done
       /\ rst.resp = rlog[6]
       /\ rst.sleeps = <<1, 2, 4, 8, 16>>
  /\ \A k \in DOMAIN rlog :
       rlog[k].ok => k = Len(rlog) /\ rst.done /\ rst.resp = rlog[k]

\* the executor has returned after six rate-limited answers
C9_Witness ==
  /\ Len(rlog) = 6
  /\ AllRateLimited(6)
  /\ rst.done
  /\ rst.resp = rlog[6]

\* C10: a non-transient error (not-found, bad-request, a permanent
\* permission-denied, a non-API error) propagates at once: one call, no sleep,
\* that error returned.
C10_PermanentImmediate ==
  (Len(rlog) >= 1 /\ ~rlog[1].ok /\ rlog[1].err \in PermanentErrs) =>
    /\ rst.done
    /\ rst.calls = 1
    /\ rst.sleeps = <<>>
    /\ rst.resp = rlog[1]

\* the remote operations that were answered with the rate-limit signal
RateLimitedCalls ==
  {k \in DOMAIN calls :
     /\ ~Answer(calls[k].op, calls[k].id).ok
     /\ Answer(calls[k].op, calls[k].id).err \in RateLimitErrs}

\* C11: retry with backoff is applied uniformly: every remote operation
\* (metadata fetch, listing, export, copy, delete) that meets a rate-limit
\* signal is retried, through all maxRetries + 1 attempts while the signal
\* persists, rather than failing on the first one.
C11_UniformRetry ==
  \A k \in RateLimitedCalls : calls[k].n = maxRetries + 1

CommonPrefix(S, T) ==
  CHOOSE k \in 0..Len(S) :
    /\ k <= Len(T)
    /\ \A i \in 1..k : S[i] = T[i]
    /\ (k < Len(S) /\ k < Len(T)) => S[k + 1] # T[k + 1]

\* C19: joining the directory of BuildOutputPath(base, anyTitle, src) with
\* CalculateRelativePath(src, tgt, title) and cleaning yields exactly
\* BuildOutputPath(base, title, tgt); the relative path is one ".." per source
\* level beyond the common prefix, then the target's remaining fragments and
\* its filename.
C19_RelativePathResolves ==
  pathOut.fn = "relative" =>
    LET S == FragParts(pathIn.src)
        T == FragParts(pathIn.tgt)
        c == CommonPrefix(S, T)
    IN /\ Join(<<Dir(pathOut.srcPath), pathOut.rel>>) = pathOut.tgtPath
       /\ pathOut.rel.abs = FALSE
       /\ pathOut.rel.parts =
            [i \in 1..(Len(S) - c) |-> DotDot]
              \o SubSeq(T, c + 1, Len(T))
              \o <<SanitizeFilename(pathIn.title) \o MdExt>>

\* a relative link that climbs out of one source level below a shared one
C19_Witness ==
  /\ pathOut.fn = "relative"
  /\ pathIn.src = <<<<"a">>, <<"b">>>>
  /\ pathIn.tgt = <<<<"a", "/">>, <<".", ".">>>>
  /\ pathOut.rel.parts = <<DotDot, Untitled, <<"t", ".", "m", "d">>>>

\* C20: EnsureUniquePath never returns a reserved path: the path itself when
\* it is unreserved, otherwise the path with the smallest suffix _i (i >= 1),
\* inserted before the extension, that is unreserved.
C20_EnsureUnique ==
  pathOut.fn = "unique" =>
    LET path == pathIn.path
        reserved == pathIn.existingPaths
        result == pathOut.result
    IN /\ result \notin reserved
       /\ path \notin reserved => result = path
       /\ path \in reserved =>
            \E i \in 1..(Cardinality(reserved) + 1) :
              /\ result = Suffixed(path, i)
              /\ \A j \in 1..(i - 1) : Suffixed(path, j) \in reserved
       /\ (path = PathStr(FALSE, <<<<"a", ".", "b", ".", "m", "d">>>>) /\ reserved = {path})
            => result = PathStr(FALSE, <<<<"a", ".", "b", "_", "1", ".", "m", "d">>>>)
       /\ (path = PathStr(FALSE, <<<<"d", ".", "x">>, <<"f">>>>) /\ reserved = {path})
            => result = PathStr(FALSE, <<<<"d", ".", "x">>, <<"f", "_", "1">>>>)

\* the path and its first suffix are reserved, the second suffix is returned
C20_Witness ==
  /\ pathOut.fn = "unique"
  /\ pathIn.path = PathStr(FALSE, <<<<"f", ".", "m", "d">>>>)
  /\ pathOut.result = PathStr(FALSE, <<<<"f", "_", "2", ".", "m", "d">>>>)

\* Convert has returned
ConvDone == mn.pc = "done"

\* convertRecord succeeds on row i
Convertible(i) ==
  /\ convExtractFileID(convIn.records[i].Link).ok
  /\ IsGoogleApps(convIn.records[i].mime)
  /\ convExportOK(convIn.records[i])

\* C13: for every record list and every worker count, each record is
\* attempted exactly once, by exactly one worker, before Convert returns.
C13_AttemptedOnce ==
  /\ \A i \in DOMAIN attempts : Len(attempts[i]) <= 1
  /\ ConvDone => \A i \in DOMAIN attempts : Len(attempts[i]) = 1

WorkerWork(w) ==
  CASE wk[w].pc = "off" -> IF w <= convIn.workers THEN 1 ELSE 0
    [] wk[w].pc = "range" -> 1
    [] wk[w].pc = "convert" -> 5
    [] wk[w].pc = "reserve" -> 4
    [] wk[w].pc = "write" -> 3
    [] wk[w].pc = "send" -> 2
    [] OTHER -> 0

\* the steps the main goroutine still owes before Convert returns
MainWork ==
  CASE mn.pc = "index" -> 1 + convIn.workers + NumRecords + 3
    [] mn.pc = "spawn" -> (convIn.workers - mn.i) + NumRecords + 3
    [] mn.pc = "send" -> (NumRecords - mn.i) + 3
    [] mn.pc = "close" -> 3
    [] mn.pc = "wait" -> 2
    [] mn.pc = "collect" -> 1
    [] OTHER -> 0

RECURSIVE SumOver(_, _)
SumOver(f, S) ==
  IF S = {} THEN 0
  ELSE LET x == CHOOSE y \in S : TRUE IN f[x] + SumOver(f, S \ {x})

\* the steps the whole pool still owes: five per job no worker has received
ConvMeasure ==
  MainWork
    + SumOver([w \in Workers |-> WorkerWork(w)], Workers)
    + 5 * SumOver([i \in DOMAIN attempts |-> IF attempts[i] = <<>> THEN 1 ELSE 0],
                  DOMAIN attempts)

\* C15: the worker pool never deadlocks: for every number of jobs and
\* workers and every interleaving, some step is possible until the call has
\* returned, and every step brings the return closer, so every worker exits
\* and Convert returns.
C15_NoDeadlock ==
  /\ [](ConvMeasure >= 0 /\ (mn.pc \notin {"idle", "done"} => ConvEnabled))
  /\ [][ConvMeasure' < ConvMeasure]_vars
  /\ [](ConvDone => \A w \in Workers : wk[w].pc \in {"off", "exited"})

\* two workers shared three jobs and the call returned
C15_Witness ==
  /\ ConvDone
  /\ convIn.workers = 2
  /\ NumRecords = 3
  /\ \E i, j \in DOMAIN attempts : attempts[i] = <<1>> /\ attempts[j] = <<2>>
  /\ \A w \in Workers : wk[w].pc = "exited"

\* C16: within one Convert run no two records are assigned the same output
\* path, under every interleaving of the workers; the reservation set holds
\* exactly the assigned paths.
C16_UniquePaths ==
  /\ \A i, j \in DOMAIN outPaths :
       (i # j /\ outPaths[i] # EmptyStr /\ outPaths[j] # EmptyStr)
         => outPaths[i] # outPaths[j]
  /\ existingPaths = {outPaths[i] : i \in {k \in DOMAIN outPaths : outPaths[k] # EmptyStr}}

\* two records that build the same path, the later one given the suffix _1
C16_Witness ==
  /\ NumRecords >= 2
  /\ outPaths[2] = PathStr(FALSE, <<<<"o", "u", "t">>, <<"x">>, <<"t", "a", ".", "m", "d">>>>)
  /\ outPaths[1] = PathStr(FALSE, <<<<"o", "u", "t">>, <<"x">>,
                                     <<"t", "a", "_", "1", ".", "m", "d">>>>)

RECURSIVE SequentialFiles(_, _, _)
\* the files one worker taking the records in order writes
SequentialFiles(i, paths, fs) ==
  IF i > NumRecords THEN fs
  ELSE IF ~Convertible(i) THEN SequentialFiles(i + 1, paths, fs)
       ELSE LET rec == convIn.records[i]
                outputPath == EnsureUniquePath(
                                BuildOutputPath(outputDir, normalizeFilename(rec.Title),
                                                rec.frags),
                                paths)
            IN SequentialFiles(i + 1, paths \cup {outputPath},
                               MapPut(fs, outputPath,
                                      [rec |-> i, links |-> rewriteLinks(rec.content, i)]))

\* C17: for a fixed record list and fixed remote contents the set of files
\* written by Convert (each path with the record whose content it holds) is
\* the same under every worker count (of at least one worker) and every
\* interleaving: it is what one worker alone writes.
C17_SameFiles ==
  (ConvDone /\ convIn.workers >= 1) => disk = SequentialFiles(1, {}, <<>>)

\* C18: after a Convert run every rewritten link of a written source file
\* resolves, relative to the directory of the source's path on disk, to the
\* path on disk of the target record's file, when that file was written.
C18_LinksResolve ==
  ConvDone =>
    \A p \in DOMAIN disk : \A k \in DOMAIN disk[p].links :
      disk[p].links[k].rewritten =>
        \A q \in DOMAIN disk :
          disk[q].rec = disk[p].links[k].target
            => Join(<<Dir(p), disk[p].links[k].rel>>) = q

\* the characters of [a-z0-9-]
LowerAlnumHyphen ==
  {"a", "b", "c", "d", "e", "f", "g", "h", "i", "j", "k", "l", "m", "n", "o", "p", "q",
   "r", "s", "t", "u", "v", "w", "x", "y", "z", "0", "1", "2", "3", "4", "5", "6", "7",
   "8", "9", "-"}

\* C21: utils.NormalizeFilename is idempotent, and its result is not empty,
\* holds only characters of [a-z0-9-], neither starts nor ends with a hyphen
\* and has no two hyphens in a row.
C21_NormalizeIdempotent ==
  pathOut.fn = "normalize" =>
    LET r == pathOut.utils
    IN /\ NormalizeFilename(r) = r
       /\ r # <<>>
       /\ \A i \in 1..Len(r) : r[i] \in LowerAlnumHyphen
       /\ r[1] # "-" /\ r[Len(r)] # "-"
       /\ \A i \in 1..(Len(r) - 1) : ~(r[i] = "-" /\ r[i + 1] = "-")

\* "A -!" has been normalized to "a"
C21_Witness ==
  /\ pathOut.fn = "normalize"
  /\ pathIn.name = <<"A", " ", "-", "!">>
  /\ pathOut.utils = <<"a">>

\* C22: conversion's normalizeFilename drops a trailing dot-extension before
\* it normalizes, and for every title returns the name utils.NormalizeFilename
\* returns, so the file Convert writes has the name Sync's RewriteLinks links to.
C22_SameName ==
  pathOut.fn = "normalize" =>
    /\ pathOut.conv = normalizeFilename(StripExt(pathIn.name))
    /\ pathOut.conv = pathOut.utils

\* the host is one of the two store domains
AllowedHost(u) == u.host \in {"drive.google.com", "docs.google.com"}

\* the nested form /d/e/<id> and the plain form /d/<id> or /folders/<id>
\* at segment i
NestedAt(parts, i) == parts[i] = "d" /\ i + 2 <= Len(parts) /\ parts[i + 1] = "e"

PlainAt(parts, i) == parts[i] \in {"d", "folders"} /\ i + 1 <= Len(parts)

First(S) == CHOOSE i \in S : \A j \in S : i <= j

\* the ID of the query parameter, else of the first long run, else none
AfterPath(u, ok, id) ==
  LET runs == u.path \o <<u.qid>>
      long == {k \in 1..Len(runs) : Len(runs[k]) >= 25}
  IN IF u.qid # "" THEN ok /\ id = u.qid
     ELSE long # {} => ok /\ id = runs[First(long)]

\* C23 (amended): for a URL on an allowed host the path segments are read
\* from left to right and the first segment at which a path form matches
\* supplies the ID, the nested form /d/e/<id> going before /d/<id> and
\* /folders/<id> at that segment; the id query parameter supplies the ID only
\* when no segment matches, and the first run of 25 or more word or hyphen
\* characters only when neither a path form nor the id parameter matches.
C23_FirstSegmentWins ==
  (pathOut.fn = "extract" /\ AllowedHost(pathIn.url)) =>
    LET parts == pathIn.url.path
        hits == {i \in 1..Len(parts) : NestedAt(parts, i) \/ PlainAt(parts, i)}
    IN IF hits # {}
       THEN /\ pathOut.ok
            /\ pathOut.id = IF NestedAt(parts, First(hits)) THEN parts[First(hits) + 2]
                            ELSE parts[First(hits) + 1]
       ELSE AfterPath(pathIn.url, pathOut.ok, pathOut.id)

\* "/folders/X/d/e/Y?id=Q" has given X
C23_Witness ==
  /\ pathOut.fn = "extract"
  /\ pathIn.url = Url("drive.google.com", <<"", "folders", "X", "d", "e", "Y">>, "Q")
  /\ pathOut.ok /\ pathOut.id = "X"

\* C23 as stated: the strategies are tried in fixed priority over the whole
\* URL, the plain form supplying the ID only when the nested form matches
\* nowhere, the query parameter only when no path form matches, the long
\* run only when nothing else matches.
C23_StrategyPriority ==
  (pathOut.fn = "extract" /\ AllowedHost(pathIn.url)) =>
    LET parts == pathIn.url.path
        nested == {i \in 1..Len(parts) : NestedAt(parts, i)}
        plain == {i \in 1..Len(parts) : PlainAt(parts, i)}
    IN IF nested # {} THEN pathOut.ok /\ pathOut.id = parts[First(nested) + 2]
       ELSE IF plain # {} THEN pathOut.ok /\ pathOut.id = parts[First(plain) + 1]
            ELSE AfterPath(pathIn.url, pathOut.ok, pathOut.id)

\* C24: ExtractFileID returns an error and no ID for every URL whose host is
\* not drive.google.com or docs.google.com, for malformed or empty input, and
\* for a URL on an allowed host that no strategy matches.
C24_ErrorOnInvalid ==
  LET u == pathIn.url
      runs == u.path \o <<u.qid>>
      unmatched == /\ \A i \in 1..Len(u.path) : ~PlainAt(u.path, i)
                   /\ u.qid = ""
                   /\ \A k \in 1..Len(runs) : Len(runs[k]) < 25
  IN (pathOut.fn = "extract" /\ (ParseFails(u) \/ ~AllowedHost(u) \/ unmatched))
       => (~pathOut.ok /\ pathOut.id = "")

\* the outcome r of rewriting the link pathIn holds, against the link map m,
\* the ID extraction ext of its URL and the normalized titles names: the text
\* is kept; a URL that is a key is replaced by the path to its record; else
\* an ID that is a key by the path to that record; else the URL is kept
RewrittenBy(r, m, ext, names) ==
  LET url == pathIn.linkURL
      recs == convIn.records
      pathTo(t) == CalculateRelativePath(recs[pathIn.source].frags, recs[t].frags, names[t])
  IN /\ r.text = pathIn.linkText
     /\ IF url \in DOMAIN m
        THEN r.link.rewritten /\ r.link.rel = pathTo(m[url])
        ELSE IF ext.ok /\ IdKey(ext.id) \in DOMAIN m
             THEN r.link.rewritten /\ r.link.rel = pathTo(m[IdKey(ext.id)])
             ELSE ~r.link.rewritten /\ r.link.url = url

BrokenUrl(text) ==
  \E i \in 1..Len(text) : \E j \in (i + 2)..Len(text) :
    /\ IsUrlWord(text[i])
    /\ \A k \in (i + 1)..(j - 1) : text[k] \in {NL, SP}
    /\ \E k \in (i + 1)..(j - 1) : text[k] = NL
    /\ text[j] \notin {NL, SP}

\* C26: the line join is a fixed-point join: a store URL broken at any number
\* of line breaks in a row comes out as one URL, so that the output holds no
\* URL fragment, line break, URL fragment any more and normalizing it again
\* changes nothing; a text without a store URL comes out unchanged.  This is
\* asked of utils.NormalizeMultilineURLs and of conversion's
\* normalizeMultilineURLs.
C26_JoinFixedPoint ==
  pathOut.fn = "join" =>
    /\ ~BrokenUrl(pathOut.utils)
    /\ NormalizeMultilineURLs(pathOut.utils) = pathOut.utils
    /\ ~BrokenUrl(pathOut.conv)
    /\ normalizeMultilineURLs(pathOut.conv) = pathOut.conv
    /\ (\A k \in 1..Len(pathIn.text) : ~IsUrlWord(pathIn.text[k]))
         => (pathOut.utils = pathIn.text /\ pathOut.conv = pathIn.text)

\* the header line of the file reads hash-gdrive: mk, bare or in quotes
HeaderHolds(file, mk) ==
  /\ file.state = "ok"
  /\ file.hasHash
  /\ file.rawHash \in {<<" ">> \o mk, <<" ", "\"">> \o mk \o <<"\"">>}

\* the pass fetched the metadata of the document and got it
Fetched(e) == e.calls # <<>> /\ e.metaOK

\* C27: when the marker stored in the file equals the marker the metadata
\* fetch returns, syncFile returns unchanged, issues no export and writes
\* nothing; so of two passes in a row over an unchanged remote marker, the
\* first having completed, the second writes nothing.
C27_UnchangedNoWrite ==
  /\ \A k \in 1..Len(syncResults) :
       LET e == syncResults[k]
       IN (Fetched(e) /\ HeaderHolds(e.before, e.marker)) =>
            /\ e.status = "unchanged"
            /\ e.calls = <<"get">>
            /\ ~e.wrote
            /\ e.after = e.before
  /\ \A k \in 1..(Len(syncResults) - 1) :
       (/\ syncResults[k].status \in {"updated", "unchanged"}
        /\ syncResults[k + 1].marker = syncResults[k].marker)
         => (~syncResults[k + 1].wrote
               /\ syncResults[k + 1].after = syncResults[k + 1].before)

\* two passes over a file whose marker is the remote one: both unchanged
C27_Witness ==
  /\ Len(syncResults) = 2
  /\ HeaderHolds(syncResults[1].before, syncResults[1].marker)
  /\ syncResults[1].status = "unchanged"
  /\ syncResults[2].status = "unchanged"
  /\ syncResults[2].calls = <<"get">>

\* C28: when the remote marker differs from the stored one and the pass
\* succeeds, not in dry-run, syncFile exports, writes the file with the
\* fetched marker in its header and the hash of the newly rewritten body,
\* and returns updated; the next pass, the remote unchanged and answering,
\* reads that marker back and returns unchanged.
C28_UpdatedThenUnchanged ==
  \A k \in 1..Len(syncResults) :
    LET e == syncResults[k]
    IN (/\ Fetched(e)
        /\ e.before.hasHash /\ ~HeaderHolds(e.before, e.marker)
        /\ e.status # "error"
        /\ ~syncDryRun) =>
         /\ e.status = "updated"
         /\ e.wrote
         /\ e.calls = <<"get", "export">>
         /\ HeaderHolds(e.after, e.marker)
         /\ e.after.body.preamble = e.before.link
         /\ Len(e.after.body.links) = Len(e.content)
         /\ \A i \in 1..Len(e.content) : e.after.body.links[i].url = e.content[i]
         /\ e.after.hashContent = CalculateStringHash(e.after.body)
         /\ (k < Len(syncResults) /\ syncResults[k + 1].marker = e.marker
               /\ syncResults[k + 1].metaOK)
              => (/\ syncResults[k + 1].before = e.after
                  /\ syncResults[k + 1].status = "unchanged")

\* a file with the older marker has been updated, and the pass after it
\* has found it unchanged
C28_Witness ==
  /\ Len(syncResults) = 2
  /\ ~syncDryRun
  /\ HeaderHolds(syncResults[1].before, <<"1", ":", "0">>)
  /\ syncResults[1].marker = <<"2", ":", "0">>
  /\ syncResults[1].status = "updated" /\ syncResults[1].wrote
  /\ syncResults[2].marker = <<"2", ":", "0">>
  /\ syncResults[2].status = "unchanged"

\* C29: a file whose stored marker is the stub value is skipped: syncFile
\* returns skipped, issues no remote call and writes nothing, whatever the
\* gdrive-link and the other fields of its header are.
C29_StubSkipped ==
  \A k \in 1..Len(syncResults) :
    LET e == syncResults[k]
    IN HeaderHolds(e.before, Stub) =>
         /\ e.status = "skipped"
         /\ e.calls = <<>>
         /\ ~e.wrote
         /\ e.after = e.before

\* a stub file with a good link to a document of the inventory was skipped
C29_Witness ==
  /\ syncResults # <<>>
  /\ HeaderHolds(syncResults[1].before, Stub)
  /\ syncResults[1].before.hasLink
  /\ syncResults[1].before.link = DocLink("A")
  /\ syncResults[1].status = "skipped"

\* content types of the unsupported set: an image and a Google Sheet
UnsupportedTypes == {MimePng, MimeSheet}

\* C30: for a record whose content type is in the unsupported set,
\* convertRecord fails after the metadata fetch, with no export, download or
\* copy call issued and no file written.
C30_UnsupportedFailsFast ==
  \A w \in Workers :
    (wk[w].pc = "send" /\ convIn.records[wk[w].job].mime \in UnsupportedTypes) =>
      /\ wk[w].err = "error"
      /\ wk[w].calls = <<"get">>
      /\ \A p \in DOMAIN disk : disk[p].rec # wk[w].job

(***************************************************************************)
(* The link map, dry runs, the conversion CSV, clone cleanup, markers,     *)
(* headers and file links.                                                 *)
(***************************************************************************)

\* the rows of recs indexed under key k: by their link, or by the file ID
\* that idOf finds in their link
RowsOf(recs, k, idOf(_)) ==
  {i \in 1..Len(recs) :
     \/ recs[i].Link = k
     \/ idOf(recs[i].Link).ok /\ IdKey(idOf(recs[i].Link).id) = k}

\* the least element of a non-empty set of row numbers
MinRow(S) == CHOOSE i \in S : \A j \in S : i <= j

\* C31: when several records of the inventory have the same link or the same
\* document ID, the link map of Convert and the link map of Sync resolve
\* that key to the first of these records in input order
C31_FirstRecordWins ==
  /\ \A k \in DOMAIN linkMap :
       linkMap[k] = MinRow(RowsOf(convIn.records, k, convExtractFileID))
  /\ \A k \in DOMAIN SyncLinkMap(convIn.records, 1, <<>>) :
       SyncLinkMap(convIn.records, 1, <<>>)[k]
         = MinRow(RowsOf(convIn.records, k, ExtractFileID))

\* C32: with dry-run on, Convert and Sync change nothing in the local file
\* system, whatever the record and the outcome: no directory is made and no
\* file is created, written or removed
C32_DryRunNoMutation ==
  /\ txn.pc # "none" /\ txn.dry =>
       \A k \in DOMAIN txn.fs : txn.fs[k].by # "convert"
  /\ txn.pc # "none" /\ txn.sdry =>
       \A k \in DOMAIN txn.fs : txn.fs[k].by # "sync"

\* C34: when the delete of the temporary copy fails the operation goes on
\* to return what the export gave, and a warning about the copy left behind
\* is in the log
C34_DeleteFailureWarned ==
  txn.pc # "none" /\ txn.clone = "left" =>
    /\ txn.pc \in {"finish", "write", "done", "sexport", "swrite"}
    /\ txn.err => txn.pc = "done" /\ txn.ret = "error"
    /\ txn.pc \in {"finish", "write"} => txn.got = txn.cloneVer
    /\ \E k \in DOMAIN txn.log : txn.log[k] = "Warning: Failed to delete temporary file"

\* C35: whatever edits the document gets during a Convert or a Sync, the
\* marker in the written header is never newer than the revision of the
\* content beside it, and a run of Sync that reports unchanged found the
\* file holding the content of the revision then in the store
C35_MarkerNotNewer ==
  txn.pc # "none" =>
    /\ txn.file.marker <= txn.file.content
    /\ \A k \in DOMAIN txn.passes :
         txn.passes[k].status = "unchanged" =>
           txn.passes[k].before.content = txn.passes[k].store

\* an edit fell between the metadata fetch and the export of a Convert, and
\* the next run of Sync did not report unchanged but updated the file; a
\* later run found the file up to date
C35_Witness ==
  /\ txn.pc # "none"
  /\ Len(txn.passes) = 2
  /\ txn.passes[1].status = "updated"
  /\ txn.passes[1].before.marker < txn.passes[1].before.content
  /\ txn.passes[2].status = "unchanged"

\* C33: the tags and frag1..frag5 columns are optional: for each of them
\* that the header lacks, every record ParseConversionCSV returns has the
\* empty string in that field
C33_AbsentColumnEmpty ==
  pathOut.fn = "csv" /\ pathOut.ok =>
    \A col \in Columns \ {"link", "title"} :
      (\A i \in 1..Len(pathIn.header) : ToLower(pathIn.header[i]) # col) =>
        \A k \in 1..Len(pathOut.records) : pathOut.records[k][col] = <<>>

\* C36: whenever syncFile returns error or skipped the file is left as it was
C36_ErrorLeavesFile ==
  \A k \in DOMAIN syncResults :
    syncResults[k].status \in {"error", "skipped"} =>
      syncResults[k].after = syncResults[k].before

\* C36 amended: whenever syncFile returns error or skipped the file is left
\* as it was, unless the failure is that of os.WriteFile itself, after a
\* successful export in a run that is not a dry run
C36_ErrorBeforeWriteLeavesFile ==
  \A k \in DOMAIN syncResults :
    /\ syncResults[k].status \in {"error", "skipped"}
    /\ syncResults[k].after # syncResults[k].before
    => /\ ~syncDryRun
       /\ syncResults[k].calls = <<"get", "export">>
       /\ syncResults[k].faults.exportOK
       /\ ~syncResults[k].faults.writeOK

\* a run fetched and exported the document with a working disk, found no
\* record for it in the link map, returned error and left the file alone
C36_Witness ==
  \E k \in DOMAIN syncResults :
    /\ syncResults[k].status = "error"
    /\ syncResults[k].calls = <<"get", "export">>
    /\ syncResults[k].faults.exportOK /\ syncResults[k].faults.writeOK
    /\ ~syncDryRun
    /\ syncResults[k].after = syncResults[k].before

\* C37: Convert rewrites a link to the path of record R only if the link's
\* URL is R's link or names the same document as R's link, and two records
\* of the inventory for different documents never share an ID key of the
\* link map
C37_RewriteSameDocument ==
  /\ pathOut.fn = "rewrite" /\ pathOut.conv.link.rewritten =>
       LET target == convIn.records[pathOut.conv.link.target]
       IN \/ pathIn.linkURL = target.Link
          \/ /\ ExtractFileID(pathIn.linkURL).ok
             /\ ExtractFileID(pathIn.linkURL).id = target.id
  /\ \A i, j \in DOMAIN convIn.records :
       /\ convIn.records[i].id # convIn.records[j].id
       /\ convExtractFileID(convIn.records[i].Link).ok
       /\ convExtractFileID(convIn.records[j].Link).ok
       => convExtractFileID(convIn.records[i].Link).id
            # convExtractFileID(convIn.records[j].Link).id

\* C38: for every header map over the known keys, parseFrontmatter of what
\* buildFrontmatter writes succeeds and returns the same map, values with
\* colons, quotes and other reserved characters included
C38_HeaderRoundTrip ==
  pathOut.fn = "header" =>
    /\ pathOut.ok
    /\ DOMAIN pathOut.fm = DOMAIN pathIn.fm
    /\ \A key \in DOMAIN pathIn.fm : pathOut.fm[key] = pathIn.fm[key]

\* C39: for every non-empty ID of word and hyphen characters and every
\* content type, ExtractFileID of the link BuildFileLink makes succeeds and
\* returns the ID
C39_LinkRoundTrip ==
  pathOut.fn = "link" => pathOut.ok /\ pathOut.id = pathIn.id

\* C39 amended: the same, except for the one-letter ID "e" with a content
\* type other than form and folder, whose link reads ".../d/e/..."
C39_LinkRoundTripNotE ==
  /\ pathOut.fn = "link"
  /\ ~(pathIn.id = "e"
        /\ pathIn.mime \notin {"application/vnd.google-apps.form", MimeFolder})
  => pathOut.ok /\ pathOut.id = pathIn.id

\* the folder whose ID is "d" is found again from its link
C39_Witness ==
  /\ pathOut.fn = "link"
  /\ pathIn.id = "d" /\ pathIn.mime = MimeFolder
  /\ pathOut.ok /\ pathOut.id = "d"

\* C40: whenever ExtractFileID returns without an error the ID it returns
\* is not the empty string
C40_IdNotEmpty ==
  pathOut.fn = "extract" /\ pathOut.ok => pathOut.id # ""

====
